---- MODULE Spec2Model ----
(***************************************************************************)
(* Rate Limiter example of the repository: the four rate limiting          *)
(* algorithms (algorithms/index.ts = src/unnamed/part_003), the storage    *)
(* adapters (storage/index.ts) and the RateLimiterService facade           *)
(* (types/index.ts, second half).                                          *)
(*                                                                         *)
(* Time is Date.now() in milliseconds.  Every async method is cut at its   *)
(* awaits: one action is the synchronous code between two awaits, so the   *)
(* interleavings of the model are those of the JavaScript event loop.      *)
(*                                                                         *)
(* Fractions.  The token bucket counts tokens in multiples of 1/60 (its    *)
(* rate is maxRequests / 60) and the leaky bucket counts water in          *)
(* multiples of 1/60000 (timePassed * leakRate / 1000): the fields tokens  *)
(* and water hold the numerators, and the arithmetic is exact.             *)
(***************************************************************************)
EXTENDS Integers, Sequences, FiniteSets, TLC

VARIABLES
    now,            \* Date.now()
    storageType,    \* StorageType chosen by the first build
    isConnected,    \* RedisStorageAdapter.isConnected
    store,          \* the adapter's key space: key -> [value, expiry]
    rules,          \* RateLimiterService.rules, a Map in insertion order
    metrics,        \* RateLimiterService.metrics
    responseTimes,  \* RateLimiterService.responseTimes
    procs,          \* the calls in flight, each at one of its awaits; for the API
                    \* routes, the request answered last
    granted,        \* history: the decisions with allowed = true the algorithms
                    \* returned; for the store on its own, the increments that returned
    calls,          \* history: counts of the calls started / returned / rejected
    prevOp          \* history: per identifier, the last call that returned for it;
                    \* for the store on its own, the last set or delete of the key

vars == <<now, storageType, isConnected, store, rules, metrics, responseTimes,
          procs, granted, calls, prevOp>>

----------------------------------------------------------------------------
(* Program constants *)

MsPerSecond == 1000
PerMinute == 60
DefaultRemaining == 999
DefaultResetMs == 60000
MaxResponseTimes == 1000

\* Math.min() of no arguments; Infinity + n, Math.ceil(Infinity / n) are Infinity
Infinity == 1000000000

(* Bounds of the model *)

MaxTicks == 4
MaxCalls == 4
MaxServiceTicks == 2
MaxServiceCalls == 2

TickMs == MsPerSecond \div 2
ProcIds == {1, 2}

----------------------------------------------------------------------------
(* Arithmetic helpers *)

Min(a, b) == IF a <= b THEN a ELSE b
Max(a, b) == IF a >= b THEN a ELSE b

\* Math.ceil(a / b) for b > 0
Ceil(a, b) == -((-a) \div b)

\* Math.floor(a / b) for b > 0
Floor(a, b) == a \div b

RECURSIVE SeqMin(_)
\* Math.min(...xs)
SeqMin(xs) ==
    IF xs = <<>> THEN Infinity ELSE Min(Head(xs), SeqMin(Tail(xs)))

RECURSIVE SeqSum(_)
\* xs.reduce((a, b) => a + b, 0)
SeqSum(xs) ==
    IF xs = <<>> THEN 0 ELSE Head(xs) + SeqSum(Tail(xs))

RECURSIVE FilterInclusive(_, _)
\* C35 mutant: a timestamp at the start of the window is still in the window
FilterInclusive(xs, windowStart) ==
    IF xs = <<>> THEN <<>>
    ELSE IF Head(xs) >= windowStart
         THEN <<Head(xs)>> \o FilterInclusive(Tail(xs), windowStart)
         ELSE FilterInclusive(Tail(xs), windowStart)

RECURSIVE Filter(_, _)
\* requests.filter(timestamp => timestamp > windowStart)
Filter(xs, windowStart) ==
    IF xs = <<>> THEN <<>>
    ELSE IF Head(xs) > windowStart
         THEN <<Head(xs)>> \o Filter(Tail(xs), windowStart)
         ELSE Filter(Tail(xs), windowStart)

\* xs.slice(-n)
SliceLast(xs, n) ==
    IF Len(xs) <= n THEN xs ELSE SubSeq(xs, Len(xs) - n + 1, Len(xs))

----------------------------------------------------------------------------
(* Types *)

FIXED_WINDOW == "FIXED_WINDOW"
SLIDING_WINDOW == "SLIDING_WINDOW"
LEAKY_BUCKET == "LEAKY_BUCKET"
TOKEN_BUCKET == "TOKEN_BUCKET"
RateLimitAlgorithm == {FIXED_WINDOW, SLIDING_WINDOW, LEAKY_BUCKET, TOKEN_BUCKET}

ALLOWED == "ALLOWED"
BLOCKED == "BLOCKED"
THROTTLED == "THROTTLED"

MEMORY == "memory"
REDIS == "redis"

\* an optional number that is absent (undefined): burstSize, leakRate, weight,
\* retryAfter, expiry.  0 and undefined are both falsy where the code tests them.
Undefined == 0
NoRetryAfter == -1

\* RateLimitConfig
Config(algorithm, maxRequests, windowSizeMs, burstSize) ==
    [algorithm |-> algorithm, maxRequests |-> maxRequests,
     windowSizeMs |-> windowSizeMs, burstSize |-> burstSize, leakRate |-> Undefined]

\* RateLimitRule; conditions is a sequence of RateLimitCondition
Rule(id, config, priority, conditions) ==
    [id |-> id, config |-> config, priority |-> priority, conditions |-> conditions]

\* RateLimitResponse (the headers repeat the other fields)
Response(allowed, result, remainingRequests, resetTime, retryAfter) ==
    [allowed |-> allowed, result |-> result, remainingRequests |-> remainingRequests,
     resetTime |-> resetTime, retryAfter |-> retryAfter]

NoResponse == Response(FALSE, "NONE", 0, 0, NoRetryAfter)

----------------------------------------------------------------------------
(* Storage adapters.  A value read is <<>> (null) or <<v>>. *)

\* InMemoryStorageAdapter.get: the value, null if absent or expired
MemGetValue(st, key, t) ==
    IF key \notin DOMAIN st THEN <<>>
    ELSE IF st[key].expiry # Undefined /\ t > st[key].expiry THEN <<>>
    ELSE <<st[key].value>>

\* InMemoryStorageAdapter.get: an expired entry is deleted by the read
MemGetStore(st, key, t) ==
    IF key \in DOMAIN st /\ st[key].expiry # Undefined /\ t > st[key].expiry
    THEN [k \in DOMAIN st \ {key} |-> st[k]]
    ELSE st

\* InMemoryStorageAdapter.set
MemSet(st, key, value, ttlMs, t) ==
    [k \in DOMAIN st \cup {key} |->
        IF k = key
        THEN [value |-> value,
              expiry |-> IF ttlMs # Undefined THEN t + ttlMs ELSE Undefined]
        ELSE st[k]]

\* InMemoryStorageAdapter.delete, RedisStorageAdapter.delete (client.del)
Delete(st, key) == [k \in DOMAIN st \ {key} |-> st[k]]

\* the Redis server drops a key once its time to live has elapsed
RedisLive(st, key, t) ==
    key \in DOMAIN st /\ (st[key].expiry = Undefined \/ t < st[key].expiry)

\* RedisStorageAdapter.get: client.get, JSON.parse
RedisGetValue(st, key, t) ==
    IF RedisLive(st, key, t) THEN <<st[key].value>> ELSE <<>>

\* RedisStorageAdapter.set: client.setEx with Math.ceil(ttlMs / 1000) seconds, or client.set
RedisSet(st, key, value, ttlMs, t) ==
    [k \in DOMAIN st \cup {key} |->
        IF k = key
        THEN [value |-> value,
              expiry |-> IF ttlMs # Undefined
                         THEN t + Ceil(ttlMs, MsPerSecond) * MsPerSecond
                         ELSE Undefined]
        ELSE st[k]]

\* RedisStorageAdapter.increment: client.incrBy, atomic, keeps the key's time to live
RedisIncrement(st, key, amount, t) ==
    IF RedisLive(st, key, t)
    THEN [st EXCEPT ![key].value = @ + amount]
    ELSE [k \in DOMAIN st \cup {key} |->
            IF k = key THEN [value |-> amount, expiry |-> Undefined] ELSE st[k]]

\* every RedisStorageAdapter method: if (!this.isConnected) throw
StorageThrows == storageType = REDIS /\ ~isConnected

\* storage.get(key) at time t: the value read
GetValue(st, key, t) ==
    IF storageType = REDIS THEN RedisGetValue(st, key, t) ELSE MemGetValue(st, key, t)

\* storage.get(key) at time t: the store after the read
GetStore(st, key, t) ==
    IF storageType = REDIS THEN st ELSE MemGetStore(st, key, t)

\* storage.set(key, value, ttlMs) at time t
Set(st, key, value, ttlMs, t) ==
    IF storageType = REDIS
    THEN RedisSet(st, key, value, ttlMs, t)
    ELSE MemSet(st, key, value, ttlMs, t)

----------------------------------------------------------------------------
(* Algorithms.  Each isAllowed reads its key once, decides on the value    *)
(* read, and on admission writes the new value: XxxDecide is the code      *)
(* between the read and the write, a function of the value read.           *)

\* request.weight || 1
Weight(request) == IF request.weight = Undefined THEN 1 ELSE request.weight

\* C14 mutant: the bucket holds maxRequests tokens whatever burstSize says
BurstSizeIgnored(config) == config.maxRequests

\* this.config.burstSize || this.config.maxRequests
BurstSize(config) ==
    IF config.burstSize # Undefined THEN config.burstSize ELSE config.maxRequests

\* this.config.leakRate || (this.config.maxRequests / 60), times 60
LeakRate(config) ==
    IF config.leakRate # Undefined THEN config.leakRate * PerMinute ELSE config.maxRequests

\* C28 mutant: one key for each rule, told apart by its limit
generateKeyPerRule(config, identifier) ==
    <<identifier, config.algorithm, "limit", config.maxRequests>>

\* C21 mutant: the key leaves the identifier out
generateKeyShared(config, identifier) == <<<<"a">>, config.algorithm>>

\* BaseRateLimiter.generateKey
generateKey(config, identifier) == <<identifier, config.algorithm>>

\* Math.floor(now / windowSizeMs) * windowSizeMs
WindowStart(config, t) == Floor(t, config.windowSizeMs) * config.windowSizeMs

\* C26 mutant: the Fixed Window key has no windowStart, one count for all slots
AlgorithmKeyNoSlot(config, identifier, t) == generateKey(config, identifier)

\* the key isAllowed reads and writes
AlgorithmKey(config, identifier, t) ==
    IF config.algorithm = FIXED_WINDOW
    THEN Append(generateKey(config, identifier), WindowStart(config, t))
    ELSE generateKey(config, identifier)

\* C13 mutant: a Fixed Window count that is absent reads as 1
ValueOrOne(config, got, t) ==
    IF got # <<>> THEN got[1]
    ELSE CASE config.algorithm = FIXED_WINDOW -> 1
           [] config.algorithm = SLIDING_WINDOW -> [requests |-> <<>>, count |-> 0]
           [] config.algorithm = TOKEN_BUCKET ->
                [tokens |-> BurstSize(config) * PerMinute, lastRefill |-> t]
           [] OTHER -> [water |-> 0, lastLeak |-> t]

\* await this.storage.get(key) || <the algorithm's default>
ValueOr(config, got, t) ==
    IF got # <<>> THEN got[1]
    ELSE CASE config.algorithm = FIXED_WINDOW -> 0
           [] config.algorithm = SLIDING_WINDOW -> [requests |-> <<>>, count |-> 0]
           [] config.algorithm = TOKEN_BUCKET ->
                [tokens |-> BurstSize(config) * PerMinute, lastRefill |-> t]
           [] OTHER -> [water |-> 0, lastLeak |-> t]

\* what isAllowed decided: its response and, when allowed, the value it stores and the ttl
Decision(response, value, ttlMs) ==
    [response |-> response, value |-> value, ttlMs |-> ttlMs]

\* C1 mutant: the weight of the request is left out of the comparison
FixedWindowOverCountOnly(config, currentCount, weight) ==
    currentCount > config.maxRequests

\* FixedWindowRateLimiter.isAllowed, line 99
FixedWindowOver(config, currentCount, weight) ==
    currentCount + weight > config.maxRequests

\* FixedWindowRateLimiter.isAllowed, lines 97-124
FixedWindowDecide(config, currentCount, t, weight) ==
    LET windowEnd == WindowStart(config, t) + config.windowSizeMs
    IN  IF FixedWindowOver(config, currentCount, weight)
        THEN Decision(Response(FALSE, BLOCKED,
                               Max(0, config.maxRequests - currentCount),
                               windowEnd, Ceil(windowEnd - t, MsPerSecond)),
                      currentCount, Undefined)
        ELSE Decision(Response(TRUE, ALLOWED,
                               config.maxRequests - (currentCount + weight),
                               windowEnd, NoRetryAfter),
                      currentCount + weight, config.windowSizeMs)

\* C3 mutant: the limit is compared with >= turned around
SlidingWindowOverLate(config, currentCount, weight) ==
    currentCount + weight > config.maxRequests + 1

\* SlidingWindowRateLimiter.isAllowed, line 144
SlidingWindowOver(config, currentCount, weight) ==
    currentCount + weight > config.maxRequests

\* SlidingWindowRateLimiter.isAllowed, lines 138-173
SlidingWindowDecide(config, windowData, t, weight) ==
    LET windowStart == t - config.windowSizeMs
        validRequests == Filter(windowData.requests, windowStart)
        currentCount == Len(validRequests)
        oldestRequest == SeqMin(validRequests)
        resetTime == IF oldestRequest = Infinity THEN Infinity
                     ELSE oldestRequest + config.windowSizeMs
        retryAfter == IF resetTime = Infinity THEN Infinity
                      ELSE Ceil(resetTime - t, MsPerSecond)
    IN  IF SlidingWindowOver(config, currentCount, weight)
        THEN Decision(Response(FALSE, BLOCKED,
                               Max(0, config.maxRequests - currentCount),
                               resetTime, retryAfter),
                      windowData, Undefined)
        ELSE Decision(Response(TRUE, ALLOWED,
                               config.maxRequests - (currentCount + weight),
                               t + config.windowSizeMs, NoRetryAfter),
                      [requests |-> Append(validRequests, t),
                       count |-> currentCount + weight],
                      config.windowSizeMs)

\* C6 mutant: the refill is not capped at the burst size
RefillUncapped(config, tokens, tokensToAdd) == tokens + tokensToAdd

\* TokenBucketRateLimiter.isAllowed, line 187
Refill(config, tokens, tokensToAdd) ==
    Min(BurstSize(config) * PerMinute, tokens + tokensToAdd)

\* TokenBucketRateLimiter.isAllowed, lines 185-219; tokens in 60ths
TokenBucketDecide(config, bucketData, t, weight) ==
    LET timePassed == t - bucketData.lastRefill
        tokensToAdd == Floor(timePassed, config.windowSizeMs) * config.maxRequests
        newTokens == Refill(config, bucketData.tokens, tokensToAdd)
        tokensNeeded == weight * PerMinute - newTokens
        timeToWait == Ceil(tokensNeeded, config.maxRequests) * MsPerSecond
        remainingTokens == newTokens - weight * PerMinute
    IN  IF newTokens < weight * PerMinute
        THEN Decision(Response(FALSE, THROTTLED,
                               Max(0, Floor(newTokens, PerMinute)),
                               t + timeToWait, Ceil(timeToWait, MsPerSecond)),
                      bucketData, Undefined)
        ELSE Decision(Response(TRUE, ALLOWED,
                               Floor(remainingTokens, PerMinute),
                               t + config.windowSizeMs, NoRetryAfter),
                      [tokens |-> remainingTokens, lastRefill |-> t],
                      config.windowSizeMs * 2)

\* LeakyBucketRateLimiter.isAllowed, lines 231-267; water in 60000ths
LeakyBucketDecide(config, bucketData, t, weight) ==
    LET unit == PerMinute * MsPerSecond
        timePassed == t - bucketData.lastLeak
        leakedWater == Min(bucketData.water, timePassed * LeakRate(config))
        currentWater == bucketData.water - leakedWater
        excess == weight * unit - (config.maxRequests * unit - currentWater)
        retryAfter == Ceil(excess, MsPerSecond * LeakRate(config))
        newWater == currentWater + weight * unit
    IN  IF currentWater + weight * unit > config.maxRequests * unit
        THEN Decision(Response(FALSE, THROTTLED,
                               Max(0, config.maxRequests - Floor(currentWater, unit)),
                               t + retryAfter * MsPerSecond, retryAfter),
                      bucketData, Undefined)
        ELSE Decision(Response(TRUE, ALLOWED,
                               config.maxRequests - Floor(newWater, unit),
                               t + config.windowSizeMs, NoRetryAfter),
                      [water |-> newWater, lastLeak |-> t],
                      config.windowSizeMs * 2)

\* RateLimiterFactory.create, then isAllowed on the value read
Decide(config, got, t, weight) ==
    LET data == ValueOr(config, got, t)
    IN  CASE config.algorithm = FIXED_WINDOW -> FixedWindowDecide(config, data, t, weight)
          [] config.algorithm = SLIDING_WINDOW -> SlidingWindowDecide(config, data, t, weight)
          [] config.algorithm = TOKEN_BUCKET -> TokenBucketDecide(config, data, t, weight)
          [] OTHER -> LeakyBucketDecide(config, data, t, weight)

----------------------------------------------------------------------------
(* RateLimiterService: registry, rule matching, metrics *)

\* identifiers and condition values are strings: sequences of characters
\* String.prototype.includes
Includes(str, sub) ==
    \E i \in 0..(Len(str) - Len(sub)) : SubSeq(str, i + 1, i + Len(sub)) = sub

\* Array.prototype.includes
ArrayIncludes(arr, x) == \E i \in 1..Len(arr) : arr[i] = x

\* RateLimitCondition; value is a string (isArray = FALSE) or an array of strings
Condition(field, operator, isArray, value) ==
    [field |-> field, operator |-> operator, isArray |-> isArray, value |-> value]

\* C27 mutant: a condition on a field other than the identifier is taken to hold
ConditionMatchesOtherFields(condition, request) ==
    IF condition.field = "identifier"
    THEN CASE condition.operator = "equals" ->
                ~condition.isArray /\ request.identifier = condition.value
           [] condition.operator = "contains" ->
                ~condition.isArray /\ Includes(request.identifier, condition.value)
           [] condition.operator = "in" ->
                condition.isArray /\ ArrayIncludes(condition.value, request.identifier)
           [] OTHER -> FALSE
    ELSE TRUE

\* the callback of rule.conditions.every in findApplicableRules, lines 273-291
ConditionMatches(condition, request) ==
    IF condition.field = "identifier"
    THEN CASE condition.operator = "equals" ->
                ~condition.isArray /\ request.identifier = condition.value
           [] condition.operator = "contains" ->
                ~condition.isArray /\ Includes(request.identifier, condition.value)
           [] condition.operator = "in" ->
                condition.isArray /\ ArrayIncludes(condition.value, request.identifier)
           [] OTHER -> FALSE
    ELSE FALSE

\* the callback of getRules().filter in findApplicableRules, lines 268-292
RuleApplies(rule, request) ==
    \A i \in 1..Len(rule.conditions) : ConditionMatches(rule.conditions[i], request)

\* C15 mutant: an unstable sort, r goes in front of the rules of its own priority
InsertByPriorityUnstable(sorted, r) ==
    LET before == {i \in 1..Len(sorted) : sorted[i].priority > r.priority}
        k == IF before = {} THEN 0 ELSE CHOOSE i \in before : \A j \in before : j <= i
    IN  SubSeq(sorted, 1, k) \o <<r>> \o SubSeq(sorted, k + 1, Len(sorted))

\* Array.prototype.sort is stable: r goes behind every rule that does not sort after it
InsertByPriority(sorted, r) ==
    LET before == {i \in 1..Len(sorted) : sorted[i].priority >= r.priority}
        k == IF before = {} THEN 0 ELSE CHOOSE i \in before : \A j \in before : j <= i
    IN  SubSeq(sorted, 1, k) \o <<r>> \o SubSeq(sorted, k + 1, Len(sorted))

RECURSIVE SortByPriority(_)
\* .sort((a, b) => b.priority - a.priority)
SortByPriority(rs) ==
    IF rs = <<>> THEN <<>>
    ELSE InsertByPriority(SortByPriority(SubSeq(rs, 1, Len(rs) - 1)), rs[Len(rs)])

\* C7 mutant: the rules are not sorted
getRulesUnsorted(registry) == registry

\* RateLimiterService.getRules
getRules(registry) == SortByPriority(registry)

RECURSIVE SelectApplicable(_, _)
\* Array.prototype.filter with RuleApplies
SelectApplicable(rs, request) ==
    IF rs = <<>> THEN <<>>
    ELSE IF RuleApplies(Head(rs), request)
         THEN <<Head(rs)>> \o SelectApplicable(Tail(rs), request)
         ELSE SelectApplicable(Tail(rs), request)

\* RateLimiterService.findApplicableRules
findApplicableRules(registry, request) == SelectApplicable(getRules(registry), request)

\* C16 mutant: a list that is appended to, whatever ids it holds
MapSetAppends(registry, rule) == Append(registry, rule)

\* Map.prototype.set: an existing id keeps its place, a new id goes last
MapSet(registry, rule) ==
    IF \E i \in 1..Len(registry) : registry[i].id = rule.id
    THEN [i \in 1..Len(registry) |->
            IF registry[i].id = rule.id THEN rule ELSE registry[i]]
    ELSE Append(registry, rule)

RECURSIVE MapDelete(_, _)
\* Map.prototype.delete
MapDelete(registry, ruleId) ==
    IF registry = <<>> THEN <<>>
    ELSE IF Head(registry).id = ruleId
         THEN MapDelete(Tail(registry), ruleId)
         ELSE <<Head(registry)>> \o MapDelete(Tail(registry), ruleId)

\* RateLimiterService.createAllowedResponse
createAllowedResponse(t) ==
    Response(TRUE, ALLOWED, DefaultRemaining, t + DefaultResetMs, NoRetryAfter)

\* a quotient a / b kept as the pair <<a, b>>; 0 is <<0, 1>>
Ratio(a, b) == <<a, b>>

\* the metrics of a new service, and of resetMetrics
ZeroMetrics ==
    [totalRequests |-> 0, allowedRequests |-> 0, blockedRequests |-> 0,
     throttledRequests |-> 0, averageResponseTime |-> Ratio(0, 1),
     errorRate |-> Ratio(0, 1)]

\* C32 mutant: the switch has no case for THROTTLED
updateMetricsNoThrottled(m, times, result, responseTime) ==
    LET pushed == Append(times, responseTime)
        kept == IF Len(pushed) > MaxResponseTimes
                THEN SliceLast(pushed, MaxResponseTimes) ELSE pushed
        total == m.totalRequests + 1
        allowedN == m.allowedRequests + (IF result = ALLOWED THEN 1 ELSE 0)
        blockedN == m.blockedRequests + (IF result = BLOCKED THEN 1 ELSE 0)
        totalErrors == blockedN + m.throttledRequests
    IN  [metrics |->
            [totalRequests |-> total, allowedRequests |-> allowedN,
             blockedRequests |-> blockedN, throttledRequests |-> m.throttledRequests,
             averageResponseTime |-> Ratio(SeqSum(kept), Len(kept)),
             errorRate |-> IF total > 0 THEN Ratio(totalErrors, total) ELSE Ratio(0, 1)],
         responseTimes |-> kept]

\* C30 mutant: errorRate is computed before the counters are raised
updateMetricsStale(m, times, result, responseTime) ==
    LET pushed == Append(times, responseTime)
        kept == IF Len(pushed) > MaxResponseTimes
                THEN SliceLast(pushed, MaxResponseTimes) ELSE pushed
        total == m.totalRequests + 1
        allowedN == m.allowedRequests + (IF result = ALLOWED THEN 1 ELSE 0)
        blockedN == m.blockedRequests + (IF result = BLOCKED THEN 1 ELSE 0)
        throttledN == m.throttledRequests + (IF result = THROTTLED THEN 1 ELSE 0)
        totalErrors == m.blockedRequests + m.throttledRequests
    IN  [metrics |->
            [totalRequests |-> total, allowedRequests |-> allowedN,
             blockedRequests |-> blockedN, throttledRequests |-> throttledN,
             averageResponseTime |-> Ratio(SeqSum(kept), Len(kept)),
             errorRate |-> IF m.totalRequests > 0 THEN Ratio(totalErrors, m.totalRequests)
                           ELSE Ratio(0, 1)],
         responseTimes |-> kept]

\* RateLimiterService.updateMetrics: the new metrics and responseTimes
updateMetrics(m, times, result, responseTime) ==
    LET pushed == Append(times, responseTime)
        kept == IF Len(pushed) > MaxResponseTimes
                THEN SliceLast(pushed, MaxResponseTimes) ELSE pushed
        total == m.totalRequests + 1
        allowedN == m.allowedRequests + (IF result = ALLOWED THEN 1 ELSE 0)
        blockedN == m.blockedRequests + (IF result = BLOCKED THEN 1 ELSE 0)
        throttledN == m.throttledRequests + (IF result = THROTTLED THEN 1 ELSE 0)
        totalErrors == blockedN + throttledN
    IN  [metrics |->
            [totalRequests |-> total, allowedRequests |-> allowedN,
             blockedRequests |-> blockedN, throttledRequests |-> throttledN,
             averageResponseTime |-> Ratio(SeqSum(kept), Len(kept)),
             errorRate |-> IF total > 0 THEN Ratio(totalErrors, total) ELSE Ratio(0, 1)],
         responseTimes |-> kept]

----------------------------------------------------------------------------
(* Calls in flight.  pc names the await a call is suspended at:            *)
(*   afterGet      isAllowed of rule idx, at its storage.get               *)
(*   incrAfterGet  InMemoryStorageAdapter.increment, at its this.get       *)
(*   afterIncr     FixedWindowRateLimiter.isAllowed, at storage.increment  *)
(*   afterSet      isAllowed of rule idx, at its storage.set               *)
(*   resetting     RateLimiterService.reset, at the reset of rule idx      *)
(*   infoAfterGet  BaseRateLimiter.getInfo, at its storage.get             *)
(*   incrementing  InMemoryStorageAdapter.increment called by a client     *)

NoOp == [kind |-> "none", from |-> 0, at |-> 0, algNow |-> 0, allowed |-> FALSE,
         retryAfter |-> NoRetryAfter, resetTime |-> 0, weight |-> 0]

IdleProc ==
    [pc |-> "idle", op |-> "none",
     request |-> [identifier |-> <<>>, weight |-> Undefined],
     startTime |-> 0, applicable |-> <<>>, idx |-> 0, algNow |-> 0,
     got |-> <<>>, cur |-> <<>>,
     pending |-> Decision(NoResponse, 0, Undefined),
     evaluated |-> <<>>, response |-> NoResponse, threw |-> FALSE, endTime |-> 0,
     prev |-> NoOp, oracle |-> NoResponse]

\* the state a step leaves behind
Effect(proc, st, m, times) ==
    [proc |-> proc, store |-> st, metrics |-> m, responseTimes |-> times]

\* return response
Returned(pr, response, threw) ==
    [pr EXCEPT !.pc = "done", !.response = response, !.threw = threw, !.endTime = now]

\* RateLimiterService.isAllowed, lines 186-187 and 193-194: updateMetrics, return response
ReturnCounted(pr, response, st) ==
    LET m == updateMetrics(metrics, responseTimes, response.result, now - pr.startTime)
    IN  Effect(Returned(pr, response, FALSE), st, m.metrics, m.responseTimes)

\* RateLimiterService.isAllowed, lines 170-173: return without updateMetrics
ReturnUncounted(pr, response, st) ==
    Effect(Returned(pr, response, FALSE), st, metrics, responseTimes)

\* C10 mutant: no catch block, the error leaves isAllowed
CatchNothing(pr, st) ==
    Effect(Returned(pr, NoResponse, TRUE), st, metrics, responseTimes)

\* RateLimiterService.isAllowed, the catch block, lines 196-202
Catch(pr, st) ==
    LET m == updateMetrics(metrics, responseTimes, BLOCKED, now - pr.startTime)
    IN  Effect(Returned(pr, createAllowedResponse(now), TRUE), st, m.metrics, m.responseTimes)

\* C22 mutant: every turn of the loop reads the applicable rules from the registry
\* as it is then
CallAlgorithmLive(pr, i, st) ==
    LET live == [pr EXCEPT !.applicable = findApplicableRules(rules, pr.request)]
        config == live.applicable[i].config
        key == AlgorithmKey(config, pr.request.identifier, now)
    IN  IF i > Len(live.applicable)
        THEN ReturnCounted(live, createAllowedResponse(now), st)
        ELSE IF config.algorithm \notin RateLimitAlgorithm \/ StorageThrows
        THEN Catch(live, st)
        ELSE Effect([live EXCEPT !.pc = "afterGet", !.idx = i, !.algNow = now,
                                 !.got = GetValue(st, key, now)],
                    GetStore(st, key, now), metrics, responseTimes)

\* RateLimiterService.isAllowed, lines 177-183: RateLimiterFactory.create and the
\* synchronous start of rateLimiter.isAllowed, up to its storage.get
CallAlgorithm(pr, i, st) ==
    LET config == pr.applicable[i].config
        key == AlgorithmKey(config, pr.request.identifier, now)
    IN  IF config.algorithm \notin RateLimitAlgorithm \/ StorageThrows
        THEN Catch(pr, st)
        ELSE Effect([pr EXCEPT !.pc = "afterGet", !.idx = i, !.algNow = now,
                               !.got = GetValue(st, key, now)],
                    GetStore(st, key, now), metrics, responseTimes)

\* C8 mutant: a rejection does not end the loop unless it is the last rule's
RespondKeepsGoing(pr, response, st) ==
    LET seen == [pr EXCEPT !.evaluated =
                    Append(@, [rule |-> pr.applicable[pr.idx].id,
                               priority |-> pr.applicable[pr.idx].priority,
                               response |-> response, at |-> pr.algNow])]
    IN  IF pr.idx < Len(pr.applicable) THEN CallAlgorithm(seen, pr.idx + 1, st)
        ELSE IF ~response.allowed THEN ReturnCounted(seen, response, st)
        ELSE ReturnCounted(seen, createAllowedResponse(now), st)

\* C34 mutant: a rejection takes back what the rules before it were charged
RespondRollsBack(pr, response, st) ==
    LET seen == [pr EXCEPT !.evaluated =
                    Append(@, [rule |-> pr.applicable[pr.idx].id,
                               priority |-> pr.applicable[pr.idx].priority,
                               response |-> response, at |-> pr.algNow])]
        charged == {AlgorithmKey(pr.applicable[j].config, pr.request.identifier,
                                 pr.evaluated[j].at) : j \in 1..Len(pr.evaluated)}
    IN  IF ~response.allowed
        THEN ReturnCounted(seen, response, [k \in DOMAIN st \ charged |-> st[k]])
        ELSE IF pr.idx < Len(pr.applicable) THEN CallAlgorithm(seen, pr.idx + 1, st)
        ELSE ReturnCounted(seen, createAllowedResponse(now), st)

\* RateLimiterService.isAllowed, lines 183-194: the loop once rule idx has answered
Respond(pr, response, st) ==
    LET seen == [pr EXCEPT !.evaluated =
                    Append(@, [rule |-> pr.applicable[pr.idx].id,
                               priority |-> pr.applicable[pr.idx].priority,
                               response |-> response, at |-> pr.algNow])]
    IN  IF ~response.allowed THEN ReturnCounted(seen, response, st)
        ELSE IF pr.idx < Len(pr.applicable) THEN CallAlgorithm(seen, pr.idx + 1, st)
        ELSE ReturnCounted(seen, createAllowedResponse(now), st)

\* the rule a call in flight is evaluating
CurrentConfig(pr) == pr.applicable[pr.idx].config

\* the key a call in flight computed at the start of its isAllowed
CurrentKey(pr) == AlgorithmKey(CurrentConfig(pr), pr.request.identifier, pr.algNow)

\* history: what the highest-priority applicable rule decides on the present store,
\* when one applicable rule outranks all the others
TopDecision(request) ==
    LET matching == {i \in 1..Len(rules) : RuleApplies(rules[i], request)}
        top == {i \in matching : \A j \in matching \ {i} :
                    rules[i].priority > rules[j].priority}
    IN  IF Cardinality(matching) >= 2 /\ top # {}
        THEN LET config == rules[CHOOSE i \in top : TRUE].config
                 key == AlgorithmKey(config, request.identifier, now)
             IN  Decide(config, GetValue(store, key, now), now, Weight(request)).response
        ELSE NoResponse

\* history: the record of a call that returned
OpRecord(pr) ==
    [kind |-> pr.op, from |-> pr.startTime, at |-> now, algNow |-> pr.algNow,
     allowed |-> pr.response.allowed, retryAfter |-> pr.response.retryAfter,
     resetTime |-> pr.response.resetTime,
     weight |-> Weight(pr.request)]

\* a step of call p with effect eff; started = 1 for the step that starts the call
Apply(p, eff, started) ==
    LET pr == eff.proc
        ends == pr.pc = "done"
        check == ends /\ pr.op = "check"
    IN  /\ procs' = [procs EXCEPT ![p] = pr]
        /\ store' = eff.store
        /\ metrics' = eff.metrics
        /\ responseTimes' = eff.responseTimes
        /\ calls' = [started |-> calls.started + started,
                     returned |-> calls.returned + (IF check THEN 1 ELSE 0),
                     rejected |-> calls.rejected +
                                  (IF check /\ ~pr.response.allowed THEN 1 ELSE 0)]
        /\ prevOp' = IF ends
                     THEN [prevOp EXCEPT ![pr.request.identifier] = OpRecord(pr)]
                     ELSE prevOp

Free(p) == procs[p].pc \in {"idle", "done"}

\* RateLimiterService.isAllowed, lines 163-183: up to the first await
isAllowedStart(p, identifier, weight) ==
    /\ Free(p)
    /\ calls.started < MaxCalls
    /\ LET request == [identifier |-> identifier, weight |-> weight]
           pr == [IdleProc EXCEPT !.op = "check", !.request = request,
                                  !.startTime = now,
                                  !.applicable = findApplicableRules(rules, request),
                                  !.prev = prevOp[identifier],
                                  !.oracle = TopDecision(request)]
       IN  Apply(p, IF pr.applicable = <<>>
                    THEN ReturnUncounted(pr, createAllowedResponse(now), store)
                    ELSE CallAlgorithm(pr, 1, store), 1)
    /\ UNCHANGED <<now, storageType, isConnected, rules, granted>>

\* C33 mutant: a rejection writes the state it read back with a new ttl
AfterGetWrites(p) ==
    /\ procs[p].pc = "afterGet"
    /\ LET pr == procs[p]
           config == CurrentConfig(pr)
           key == CurrentKey(pr)
           d == Decide(config, pr.got, pr.algNow, Weight(pr.request))
           waiting == [pr EXCEPT !.pending = d]
       IN  Apply(p,
                 IF ~d.response.allowed
                 THEN Respond(pr, d.response,
                              Set(store, key, d.value, config.windowSizeMs, now))
                 ELSE IF StorageThrows THEN Catch(pr, store)
                 ELSE IF config.algorithm # FIXED_WINDOW
                 THEN Effect([waiting EXCEPT !.pc = "afterSet"],
                             Set(store, key, d.value, d.ttlMs, now),
                             metrics, responseTimes)
                 ELSE IF storageType = REDIS
                 THEN Effect([waiting EXCEPT !.pc = "afterIncr"],
                             RedisIncrement(store, key, Weight(pr.request), now),
                             metrics, responseTimes)
                 ELSE Effect([waiting EXCEPT !.pc = "incrAfterGet",
                                             !.cur = MemGetValue(store, key, now)],
                             MemGetStore(store, key, now), metrics, responseTimes),
                 0)
    /\ UNCHANGED <<now, storageType, isConnected, rules, granted>>

\* isAllowed of an algorithm resumes from its storage.get: it rejects, or writes
AfterGet(p) ==
    /\ procs[p].pc = "afterGet"
    /\ LET pr == procs[p]
           config == CurrentConfig(pr)
           key == CurrentKey(pr)
           d == Decide(config, pr.got, pr.algNow, Weight(pr.request))
           waiting == [pr EXCEPT !.pending = d]
       IN  Apply(p,
                 IF ~d.response.allowed THEN Respond(pr, d.response, store)
                 ELSE IF StorageThrows THEN Catch(pr, store)
                 ELSE IF config.algorithm # FIXED_WINDOW
                 THEN Effect([waiting EXCEPT !.pc = "afterSet"],
                             Set(store, key, d.value, d.ttlMs, now),
                             metrics, responseTimes)
                 ELSE IF storageType = REDIS
                 THEN Effect([waiting EXCEPT !.pc = "afterIncr"],
                             RedisIncrement(store, key, Weight(pr.request), now),
                             metrics, responseTimes)
                 ELSE Effect([waiting EXCEPT !.pc = "incrAfterGet",
                                             !.cur = MemGetValue(store, key, now)],
                             MemGetStore(store, key, now), metrics, responseTimes),
                 0)
    /\ UNCHANGED <<now, storageType, isConnected, rules, granted>>

\* InMemoryStorageAdapter.increment, lines 35-37: resumes from this.get, calls this.set
IncrAfterGet(p) ==
    /\ procs[p].pc = "incrAfterGet"
    /\ LET pr == procs[p]
           current == IF pr.cur = <<>> THEN 0 ELSE pr.cur[1]
           newValue == current + Weight(pr.request)
       IN  Apply(p, Effect([pr EXCEPT !.pc = "afterIncr"],
                           MemSet(store, CurrentKey(pr), newValue, Undefined, now),
                           metrics, responseTimes), 0)
    /\ UNCHANGED <<now, storageType, isConnected, rules, granted>>

\* FixedWindowRateLimiter.isAllowed, line 114: storage.set(key, currentCount + weight, ttl)
AfterIncr(p) ==
    /\ procs[p].pc = "afterIncr"
    /\ LET pr == procs[p]
       IN  Apply(p, IF StorageThrows THEN Catch(pr, store)
                    ELSE Effect([pr EXCEPT !.pc = "afterSet"],
                                Set(store, CurrentKey(pr), pr.pending.value,
                                    pr.pending.ttlMs, now),
                                metrics, responseTimes), 0)
    /\ UNCHANGED <<now, storageType, isConnected, rules, granted>>

\* isAllowed of an algorithm returns allowed; the service goes on to the next rule
AfterSet(p) ==
    /\ procs[p].pc = "afterSet"
    /\ LET pr == procs[p]
       IN  /\ Apply(p, Respond(pr, pr.pending.response, store), 0)
           /\ granted' = Append(granted,
                                [identifier |-> pr.request.identifier,
                                 algorithm |-> CurrentConfig(pr).algorithm,
                                 at |-> pr.algNow, weight |-> Weight(pr.request)])
    /\ UNCHANGED <<now, storageType, isConnected, rules>>

\* BaseRateLimiter.reset of the i-th rule, called from RateLimiterService.reset
ResetRule(pr, i, st) ==
    LET config == pr.applicable[i].config
    IN  IF config.algorithm \notin RateLimitAlgorithm \/ StorageThrows
        THEN Effect(Returned(pr, NoResponse, TRUE), st, metrics, responseTimes)
        ELSE Effect([pr EXCEPT !.pc = "resetting", !.idx = i],
                    Delete(st, generateKey(config, pr.request.identifier)),
                    metrics, responseTimes)

\* RateLimiterService.reset, lines 229-240: up to the first await
resetStart(p, identifier) ==
    /\ Free(p)
    /\ calls.started < MaxCalls
    /\ LET pr == [IdleProc EXCEPT !.op = "reset", !.request.identifier = identifier,
                                  !.startTime = now, !.applicable = getRules(rules),
                                  !.prev = prevOp[identifier]]
       IN  Apply(p, IF pr.applicable = <<>>
                    THEN Effect(Returned(pr, NoResponse, FALSE), store, metrics, responseTimes)
                    ELSE ResetRule(pr, 1, store), 1)
    /\ UNCHANGED <<now, storageType, isConnected, rules, granted>>

\* RateLimiterService.reset resumes: the next rule, or return
resetStep(p) ==
    /\ procs[p].pc = "resetting"
    /\ LET pr == procs[p]
       IN  Apply(p, IF pr.idx < Len(pr.applicable)
                    THEN ResetRule(pr, pr.idx + 1, store)
                    ELSE Effect(Returned(pr, NoResponse, FALSE), store, metrics, responseTimes),
                 0)
    /\ UNCHANGED <<now, storageType, isConnected, rules, granted>>

\* the clock
Tick ==
    /\ now + TickMs <= MaxTicks * TickMs
    /\ now' = now + TickMs
    /\ UNCHANGED <<storageType, isConnected, store, rules, metrics, responseTimes,
                   procs, granted, calls, prevOp>>

\* RateLimiterService.addRule
addRule(rule) ==
    /\ rules' = MapSet(rules, rule)
    /\ rules' # rules
    /\ UNCHANGED <<now, storageType, isConnected, store, metrics, responseTimes,
                   procs, granted, calls, prevOp>>

\* RateLimiterService.removeRule
removeRule(ruleId) ==
    /\ rules' = MapDelete(rules, ruleId)
    /\ rules' # rules
    /\ UNCHANGED <<now, storageType, isConnected, store, metrics, responseTimes,
                   procs, granted, calls, prevOp>>

\* RedisStorageAdapter: the client's 'connect' and 'error' events, lines 76-84
RedisEvent ==
    /\ storageType = REDIS
    /\ isConnected' = ~isConnected
    /\ UNCHANGED <<now, storageType, store, rules, metrics, responseTimes,
                   procs, granted, calls, prevOp>>

----------------------------------------------------------------------------
(* Specifications *)

A == <<"a">>
AB == <<"a", "b">>

\* the weights of the requests: absent, and one larger than 1
Weights == {Undefined, 2}

NoCalls == [started |-> 0, returned |-> 0, rejected |-> 0]

InitCommon ==
    /\ now = 0
    /\ isConnected = FALSE
    /\ store = <<>>
    /\ metrics = ZeroMetrics
    /\ responseTimes = <<>>
    /\ procs = [p \in ProcIds |-> IdleProc]
    /\ granted = <<>>
    /\ calls = NoCalls
    /\ prevOp = [i \in {A, AB} |-> NoOp]

\* a service built with the in-memory store and one rule without conditions,
\* so that the rule's algorithm alone decides
InitOneRule(configs) ==
    /\ InitCommon
    /\ storageType = MEMORY
    /\ \E config \in configs : rules = <<Rule("r", config, 1, <<>>)>>

\* calls for one identifier, each returning before the next starts
NextSequential ==
    \/ \E weight \in Weights : isAllowedStart(1, A, weight)
    \/ AfterGet(1)
    \/ AfterSet(1)
    \/ Tick

\* the steps of storage.increment, which only Fixed Window calls
NextIncrement ==
    \/ IncrAfterGet(1)
    \/ AfterIncr(1)

FixedWindowConfigs ==
    {Config(FIXED_WINDOW, 2, 2 * TickMs, Undefined),
     Config(FIXED_WINDOW, 3, 3 * TickMs, Undefined)}

InitFixedWindow == InitOneRule(FixedWindowConfigs)

NextFixedWindow == NextSequential \/ NextIncrement

SpecFixedWindow == InitFixedWindow /\ [][NextFixedWindow]_vars

----------------------------------------------------------------------------
(* Claims *)

TheConfig == rules[1].config

RECURSIVE GrantedWeight(_, _, _)
\* the weight granted by algorithm alg at the times in slot
GrantedWeight(gs, alg, slot) ==
    IF gs = <<>> THEN 0
    ELSE (IF Head(gs).algorithm = alg /\ Head(gs).at \in slot THEN Head(gs).weight ELSE 0)
         + GrantedWeight(Tail(gs), alg, slot)

Instants == {k * TickMs : k \in 0..(MaxTicks + 1)}

\* the instants of the window slot that starts at ws
Slot(config, ws) == {t \in Instants : ws <= t /\ t < ws + config.windowSizeMs}

\* C1: Fixed Window, calls one after the other: the weights granted at times in one
\* window slot [windowStart, windowStart + windowSizeMs) sum to at most maxRequests
C1_FixedWindowSlotBound ==
    TheConfig.algorithm = FIXED_WINDOW =>
        \A t \in Instants :
            GrantedWeight(granted, FIXED_WINDOW, Slot(TheConfig, WindowStart(TheConfig, t)))
                <= TheConfig.maxRequests

\* C1 witness: a call is blocked in a slot whose granted weight has reached maxRequests
C1_Witness ==
    /\ TheConfig.algorithm = FIXED_WINDOW
    /\ procs[1].pc = "done" /\ procs[1].op = "check"
    /\ ~procs[1].response.allowed
    /\ GrantedWeight(granted, FIXED_WINDOW,
                     Slot(TheConfig, WindowStart(TheConfig, procs[1].algNow)))
          = TheConfig.maxRequests


SlidingWindowConfigs ==
    {Config(SLIDING_WINDOW, 2, 2 * TickMs, Undefined),
     Config(SLIDING_WINDOW, 1, 3 * TickMs, Undefined)}

InitSlidingWindow == InitOneRule(SlidingWindowConfigs)

SpecSlidingWindow == InitSlidingWindow /\ [][NextSequential]_vars

RECURSIVE GrantedCount(_, _, _)
\* the number of requests granted by algorithm alg at the times in slot
GrantedCount(gs, alg, slot) ==
    IF gs = <<>> THEN 0
    ELSE (IF Head(gs).algorithm = alg /\ Head(gs).at \in slot THEN 1 ELSE 0)
         + GrantedCount(Tail(gs), alg, slot)

\* the instants of (t - windowSizeMs, t]
Window(config, t) == {u \in Instants : t - config.windowSizeMs < u /\ u <= t}

\* C3: Sliding Window, calls one after the other: at every instant t at most
\* maxRequests requests were granted at a time in (t - windowSizeMs, t]
C3_SlidingWindowBound ==
    TheConfig.algorithm = SLIDING_WINDOW =>
        \A t \in Instants :
            GrantedCount(granted, SLIDING_WINDOW, Window(TheConfig, t))
                <= TheConfig.maxRequests

\* C3 witness: a call is blocked while maxRequests grants lie in its window and an
\* older grant has slid out of it
C3_Witness ==
    /\ TheConfig.algorithm = SLIDING_WINDOW
    /\ procs[1].pc = "done" /\ procs[1].op = "check"
    /\ ~procs[1].response.allowed
    /\ GrantedCount(granted, SLIDING_WINDOW, Window(TheConfig, procs[1].algNow))
          = TheConfig.maxRequests
    /\ \E i \in 1..Len(granted) : granted[i].at <= procs[1].algNow - TheConfig.windowSizeMs

TokenBucketConfigs ==
    {Config(TOKEN_BUCKET, PerMinute, TickMs, 2),
     Config(TOKEN_BUCKET, PerMinute, 4 * TickMs, 1),
     Config(TOKEN_BUCKET, 2, TickMs, Undefined)}

InitTokenBucket == InitOneRule(TokenBucketConfigs)

SpecTokenBucket == InitTokenBucket /\ [][NextSequential]_vars

\* C5: Token Bucket: a request throttled at time t with retryAfter = r, and repeated
\* with the same weight at t + r * 1000 with no call in between, is allowed
C5_RetryAfterAdmits ==
    LET pr == procs[1]
    IN  (/\ TheConfig.algorithm = TOKEN_BUCKET
         /\ pr.pc = "done" /\ pr.op = "check"
         /\ pr.prev.kind = "check" /\ ~pr.prev.allowed
         /\ pr.prev.weight = Weight(pr.request)
         /\ Weight(pr.request) <= BurstSize(TheConfig)
         /\ pr.algNow = pr.prev.algNow + pr.prev.retryAfter * MsPerSecond)
        => pr.response.allowed

\* C6: Token Bucket: every allowed response has 0 <= remainingRequests < burstSize
C6_TokenBucketRemaining ==
    TheConfig.algorithm = TOKEN_BUCKET =>
        \A p \in ProcIds : \A k \in 1..Len(procs[p].evaluated) :
            LET response == procs[p].evaluated[k].response
            IN  response.allowed =>
                    /\ 0 <= response.remainingRequests
                    /\ response.remainingRequests < BurstSize(TheConfig)

\* C6 witness: after an earlier grant and a refill, a call is allowed with
\* remainingRequests = burstSize - 1
C6_Witness ==
    /\ TheConfig.algorithm = TOKEN_BUCKET
    /\ procs[1].pc = "done" /\ procs[1].op = "check"
    /\ procs[1].prev.kind = "check" /\ procs[1].prev.allowed
    /\ procs[1].algNow > procs[1].prev.algNow
    /\ procs[1].evaluated # <<>>
    /\ procs[1].evaluated[1].response.allowed
    /\ procs[1].evaluated[1].response.remainingRequests = BurstSize(TheConfig) - 1


\* calls for one identifier that overlap, one call per caller: each call advances
\* from await to await
NextConcurrent ==
    \/ \E p \in ProcIds, weight \in Weights :
            procs[p].pc = "idle" /\ isAllowedStart(p, A, weight)
    \/ \E p \in ProcIds : AfterGet(p)
    \/ \E p \in ProcIds : IncrAfterGet(p)
    \/ \E p \in ProcIds : AfterIncr(p)
    \/ \E p \in ProcIds : AfterSet(p)
    \/ Tick

SpecConcurrent == InitFixedWindow /\ [][NextConcurrent]_vars

\* C2: Fixed Window, overlapping calls: once all calls have returned, the outcome is
\* that of the calls in some order one after the other: in every window slot the
\* granted weights sum to at most maxRequests, and the count stored for the slot is
\* that sum
C2_Serializable ==
    (\A p \in ProcIds : Free(p)) =>
        \A t \in Instants :
            LET ws == WindowStart(TheConfig, t)
                key == Append(generateKey(TheConfig, A), ws)
                sum == GrantedWeight(granted, FIXED_WINDOW, Slot(TheConfig, ws))
            IN  /\ sum <= TheConfig.maxRequests
                /\ key \in DOMAIN store => store[key].value = sum


\* one rule of each algorithm, and a Token Bucket whose burstSize is below a weight
ResetConfigs ==
    {Config(FIXED_WINDOW, 2, 2 * TickMs, Undefined),
     Config(SLIDING_WINDOW, 2, 2 * TickMs, Undefined),
     Config(TOKEN_BUCKET, PerMinute, TickMs, 2),
     Config(TOKEN_BUCKET, PerMinute, TickMs, 1),
     Config(LEAKY_BUCKET, 2, 2 * TickMs, Undefined)}

InitReset == InitOneRule(ResetConfigs)

\* RateLimiterService.reset, one call at a time
NextReset ==
    \/ resetStart(1, A)
    \/ resetStep(1)

NextWithReset == NextSequential \/ NextIncrement \/ NextReset

SpecReset == InitReset /\ [][NextWithReset]_vars

\* C4: for each algorithm, a call right after reset(identifier) (at the same instant,
\* no call in between) with weight <= maxRequests is allowed
C4_ResetThenAdmit ==
    LET pr == procs[1]
    IN  (/\ pr.pc = "done" /\ pr.op = "check"
         /\ pr.prev.kind = "reset"
         /\ pr.prev.from = pr.startTime /\ pr.prev.at = pr.startTime
         /\ pr.algNow = pr.startTime
         /\ Weight(pr.request) <= TheConfig.maxRequests)
        => pr.response.allowed


\* the rules the service is given: A and B keep their counts under the same key
ServiceRules ==
    {Rule("A", Config(FIXED_WINDOW, 1, 2 * TickMs, Undefined), 5, <<>>),
     Rule("B", Config(FIXED_WINDOW, 2, 2 * TickMs, Undefined), 1, <<>>),
     Rule("C", Config(TOKEN_BUCKET, PerMinute, 4 * TickMs, 1), 3,
          <<Condition("identifier", "contains", FALSE, <<"b">>)>>)}

\* a service built with the in-memory store and no rule yet
InitService ==
    /\ InitCommon
    /\ storageType = MEMORY
    /\ rules = <<>>

\* one isAllowed at a time, for two identifiers; the rules are registered, in any
\* order, before the traffic starts
NextService ==
    \/ \E rule \in ServiceRules : calls.started = 0 /\ addRule(rule)
    \/ \E rule \in ServiceRules : calls.started = 0 /\ removeRule(rule.id)
    \/ \E identifier \in {A, AB} :
            calls.started < MaxServiceCalls /\ isAllowedStart(1, identifier, Undefined)
    \/ AfterGet(1)
    \/ IncrAfterGet(1)
    \/ AfterIncr(1)
    \/ AfterSet(1)
    \/ now < MaxServiceTicks * TickMs /\ Tick

SpecService == InitService /\ [][NextService]_vars

\* a call of isAllowed that has returned without a storage error
ReturnedChecks == {p \in ProcIds : procs[p].pc = "done" /\ procs[p].op = "check"
                                   /\ ~procs[p].threw}

\* C7: when the applicable rule of highest priority rejects the request, whatever
\* lower rules apply and in whatever order the rules were added, isAllowed returns
\* that rule's decision; rules are evaluated from high to low priority
C7_PriorityDecides ==
    \A p \in ReturnedChecks :
        LET pr == procs[p]
        IN  /\ (pr.oracle # NoResponse /\ ~pr.oracle.allowed) => pr.response = pr.oracle
            /\ \A i, j \in 1..Len(pr.evaluated) :
                    i < j => pr.evaluated[i].priority >= pr.evaluated[j].priority

\* C7 witness: A (priority 5) was added after B (priority 1), both apply, and the
\* call returned A's rejection
C7_Witness ==
    /\ Len(rules) >= 2 /\ rules[1].id = "B" /\ rules[2].id = "A"
    /\ 1 \in ReturnedChecks
    /\ Len(procs[1].applicable) >= 2
    /\ procs[1].oracle # NoResponse /\ ~procs[1].oracle.allowed
    /\ procs[1].response.result = BLOCKED

\* C8: isAllowed evaluates the applicable rules in priority order, returns the first
\* rejection and evaluates no rule after it; when no rule applies or all allow, it
\* returns ALLOWED with remainingRequests = 999 and resetTime = now + 60000
C8_FirstRejectionOrDefault ==
    \A p \in ReturnedChecks :
        LET pr == procs[p]
            ev == pr.evaluated
            n == Len(ev)
        IN  /\ n <= Len(pr.applicable)
            /\ \A k \in 1..n : /\ ev[k].rule = pr.applicable[k].id
                               /\ k < n => ev[k].response.allowed
            /\ \A i, j \in 1..Len(pr.applicable) :
                    i < j => pr.applicable[i].priority >= pr.applicable[j].priority
            /\ IF n > 0 /\ ~ev[n].response.allowed
               THEN pr.response = ev[n].response
               ELSE /\ n = Len(pr.applicable)
                    /\ pr.response = Response(TRUE, ALLOWED, DefaultRemaining,
                                              pr.endTime + DefaultResetMs, NoRetryAfter)

\* C8 witness: the first of three applicable rules allowed, the second rejected, the
\* third was not evaluated
C8_Witness ==
    /\ 1 \in ReturnedChecks
    /\ Len(procs[1].applicable) = 3
    /\ Len(procs[1].evaluated) = 2
    /\ ~procs[1].response.allowed

\* C9: once N calls of isAllowed have returned, K of them with a rejection, the
\* metrics have totalRequests = N, blockedRequests + throttledRequests = K and
\* errorRate = K / N
C9_MetricsCount ==
    (\A p \in ProcIds : Free(p)) =>
        /\ metrics.totalRequests = calls.returned
        /\ metrics.blockedRequests + metrics.throttledRequests = calls.rejected
        /\ calls.returned > 0 =>
              metrics.errorRate[1] * calls.returned = calls.rejected * metrics.errorRate[2]

\* a service built with the Redis store; the adapter is not connected until its
\* client says so
InitFailOpen ==
    /\ InitCommon
    /\ storageType = REDIS
    /\ rules = <<>>

\* a Fixed Window rule, which calls storage.increment, and a Token Bucket rule,
\* which does not
FailOpenRules == {rule \in ServiceRules : rule.id \in {"A", "C"}}

\* calls for one identifier over Redis, whose connection comes and goes at any moment
NextFailOpen ==
    \/ \E rule \in FailOpenRules : calls.started = 0 /\ addRule(rule)
    \/ calls.started < MaxServiceCalls /\ isAllowedStart(1, AB, Undefined)
    \/ AfterGet(1)
    \/ AfterIncr(1)
    \/ AfterSet(1)
    \/ now < MaxServiceTicks * TickMs /\ Tick
    \/ RedisEvent

SpecFailOpen == InitFailOpen /\ [][NextFailOpen]_vars

----------------------------------------------------------------------------
(* The registry on its own: addRule and removeRule with every kind of rule *)

\* a value of config.algorithm that is none of the four RateLimitAlgorithm members
UnknownAlgorithm == "CONCURRENCY"

\* a usable config, one with maxRequests = 0 and windowSizeMs = 0, and one with an
\* algorithm the factory does not know
RegistryConfigs ==
    {Config(FIXED_WINDOW, 2, 2 * TickMs, Undefined),
     Config(SLIDING_WINDOW, 0, 0, Undefined),
     Config(UnknownAlgorithm, 2, 2 * TickMs, Undefined)}

RuleIds == {"A", "B", "C"}

\* rules of three ids and two priorities, so that priorities tie
RegistryRules ==
    {Rule(id, config, priority, <<>>) :
        id \in RuleIds, config \in RegistryConfigs, priority \in {1, 2}}

InitRegistry ==
    /\ InitCommon
    /\ storageType = MEMORY
    /\ rules = <<>>

\* C17 mutant: removeRule returns true whether or not the id was there
removeRuleResultTrue(registry, ruleId) == TRUE

\* Map.prototype.delete returns whether the key was there: the value of removeRule
removeRuleResult(registry, ruleId) ==
    \E i \in 1..Len(registry) : registry[i].id = ruleId

POST == "POST /api/rules"
DELETE == "DELETE /api/rules/:ruleId"

\* no request answered yet
NoExchange == [op |-> "none", ruleId |-> "", status |-> 0]

\* the request the API answered last
LastExchange ==
    IF procs[1].op \in {POST, DELETE}
    THEN [op |-> procs[1].op, ruleId |-> procs[1].ruleId, status |-> procs[1].status]
    ELSE NoExchange

\* a request and the status it was answered with; history: whether the id was in
\* the registry before, and the request answered before this one
Exchange(op, ruleId, body, status) ==
    [pc |-> "done", op |-> op, ruleId |-> ruleId, body |-> body, status |-> status,
     replaced |-> op = POST /\ removeRuleResult(rules, ruleId),
     prev |-> LastExchange]

\* app.post('/api/rules'): the body has id, name and config; service.addRule, 201
postRule(rule) ==
    /\ rules' = MapSet(rules, rule)
    /\ procs' = [procs EXCEPT ![1] = Exchange(POST, rule.id, <<rule>>, 201)]
    /\ UNCHANGED <<now, storageType, isConnected, store, metrics, responseTimes,
                   granted, calls, prevOp>>

\* app.delete('/api/rules/:ruleId'): service.removeRule, 404 if it returned false
deleteRule(ruleId) ==
    /\ rules' = MapDelete(rules, ruleId)
    /\ procs' = [procs EXCEPT ![1] =
                    Exchange(DELETE, ruleId, <<>>,
                             IF removeRuleResult(rules, ruleId) THEN 200 ELSE 404)]
    /\ UNCHANGED <<now, storageType, isConnected, store, metrics, responseTimes,
                   granted, calls, prevOp>>

NextRegistry ==
    \/ \E rule \in RegistryRules : postRule(rule)
    \/ \E ruleId \in RuleIds : deleteRule(ruleId)

SpecRegistry == InitRegistry /\ [][NextRegistry]_vars

\* C11: every rule in the registry has maxRequests > 0 and windowSizeMs > 0, since
\* addRule rejects any other config
C11_ValidConfigs ==
    \A i \in 1..Len(rules) :
        rules[i].config.maxRequests > 0 /\ rules[i].config.windowSizeMs > 0

\* C12: every rule in the registry names one of the four algorithms, since addRule
\* refuses any other
C12_KnownAlgorithms ==
    \A i \in 1..Len(rules) : rules[i].config.algorithm \in RateLimitAlgorithm

----------------------------------------------------------------------------
(* Scenarios of one algorithm, calls one after the other *)

\* the call that last returned from the algorithm of the only rule, with weight 1
LastCheck == procs[1]

LastCheckReturned ==
    /\ LastCheck.pc = "done" /\ LastCheck.op = "check"
    /\ LastCheck.evaluated # <<>>
    /\ Weight(LastCheck.request) = 1

\* C13: Fixed Window, maxRequests = M, requests of weight 1 in one window slot,
\* starting from an empty store: the i-th check is ALLOWED with remaining M - i for
\* i <= M, and check M + 1 is BLOCKED with remaining 0.  Stated on the check that
\* last returned, k being the number of grants of its slot, all of weight 1
C13_FixedWindowScenario ==
    (TheConfig.algorithm = FIXED_WINDOW /\ LastCheckReturned) =>
        LET slot == Slot(TheConfig, WindowStart(TheConfig, LastCheck.algNow))
            k == GrantedCount(granted, FIXED_WINDOW, slot)
            r == LastCheck.evaluated[1].response
        IN  GrantedWeight(granted, FIXED_WINDOW, slot) = k =>
                IF r.allowed
                THEN /\ r.result = ALLOWED
                     /\ k <= TheConfig.maxRequests
                     /\ r.remainingRequests = TheConfig.maxRequests - k
                ELSE /\ r.result = BLOCKED
                     /\ k = TheConfig.maxRequests
                     /\ r.remainingRequests = 0

\* C13 witness: maxRequests = 3, three checks of weight 1 were granted in the slot
\* and the fourth is blocked
C13_Witness ==
    /\ TheConfig.algorithm = FIXED_WINDOW /\ TheConfig.maxRequests = 3
    /\ LastCheckReturned
    /\ ~LastCheck.evaluated[1].response.allowed
    /\ LET slot == Slot(TheConfig, WindowStart(TheConfig, LastCheck.algNow))
       IN  /\ GrantedCount(granted, FIXED_WINDOW, slot) = 3
           /\ GrantedWeight(granted, FIXED_WINDOW, slot) = 3

\* every grant so far was of weight 1 and decided at the instant t
AllGrantsAt(t) ==
    \A i \in 1..Len(granted) : granted[i].at = t /\ granted[i].weight = 1

\* C14: Token Bucket, burstSize = B, requests of weight 1 at one instant, starting
\* from an empty store: checks 1..B are ALLOWED and check B + 1 is THROTTLED with
\* retryAfter >= 1.  Stated on the check that last returned, k being the number of
\* grants, all at its instant
C14_TokenBucketScenario ==
    (/\ TheConfig.algorithm = TOKEN_BUCKET
     /\ TheConfig.burstSize # Undefined
     /\ LastCheckReturned
     /\ AllGrantsAt(LastCheck.algNow)) =>
        LET k == Len(granted)
            r == LastCheck.evaluated[1].response
        IN  IF r.allowed
            THEN r.result = ALLOWED /\ k <= TheConfig.burstSize
            ELSE /\ r.result = THROTTLED
                 /\ k = TheConfig.burstSize
                 /\ r.retryAfter >= 1

\* C14 witness: burstSize = 2 below maxRequests, two checks were granted at one
\* instant and the third, at the same instant, is throttled
C14_Witness ==
    /\ TheConfig.algorithm = TOKEN_BUCKET
    /\ TheConfig.burstSize = 2 /\ TheConfig.maxRequests > 2
    /\ LastCheckReturned
    /\ AllGrantsAt(LastCheck.algNow)
    /\ Len(granted) = 2
    /\ LastCheck.evaluated[1].response.result = THROTTLED

----------------------------------------------------------------------------
(* Claims about the registry, under SpecRegistry *)

\* a rule with this id is among rs
HasRule(rs, id) == \E i \in 1..Len(rs) : rs[i].id = id

\* where the rule with this id is in rs
Pos(rs, id) == CHOOSE i \in 1..Len(rs) : rs[i].id = id

\* the ids of rs, in its order
Ids(rs) == [i \in 1..Len(rs) |-> rs[i].id]

\* the registry's order is the order of insertion: the ids that stay keep their
\* order, and an id that comes in goes last
InsertionOrderKept(before, after) ==
    LET stayed == SelectSeq(Ids(before), LAMBDA id : HasRule(after, id))
        came == SelectSeq(Ids(after), LAMBDA id : ~HasRule(before, id))
    IN  Ids(after) = stayed \o came

\* C15: after any addRule or removeRule, getRules (and with it the order in which
\* applicable rules are evaluated) holds the registry's rules by descending priority,
\* rules of equal priority in the order their ids were inserted; an id that is
\* overwritten keeps its place in that order
C15_SortedStable ==
    [][LET listed == getRules(rules')
       IN  /\ InsertionOrderKept(rules, rules')
           /\ Len(listed) = Len(rules')
           /\ \A i \in 1..Len(rules') : \E j \in 1..Len(listed) : listed[j] = rules'[i]
           /\ \A i \in 1..(Len(listed) - 1) :
                 \/ listed[i].priority > listed[i + 1].priority
                 \/ /\ listed[i].priority = listed[i + 1].priority
                    /\ Pos(rules', listed[i].id) < Pos(rules', listed[i + 1].id)
           /\ findApplicableRules(rules', [identifier |-> A, weight |-> Undefined])
                 = listed]_vars

\* C15 witness: three rules, the first and the third inserted of priority 1, the
\* second of priority 2, and the first one has just been overwritten
C15_Witness ==
    /\ Len(rules) = 3
    /\ rules[1].priority = 1 /\ rules[2].priority = 2 /\ rules[3].priority = 1
    /\ procs[1].op = POST /\ procs[1].replaced /\ procs[1].ruleId = rules[1].id

\* C16: the registry holds at most one rule per id; after addRule(r), getRules
\* contains r, and when r.id was already there the number of rules is unchanged
C16_OneRulePerId ==
    [][/\ \A i, j \in 1..Len(rules') : rules'[i].id = rules'[j].id => i = j
       /\ procs'[1].op = POST =>
             LET r == procs'[1].body[1]
                 listed == getRules(rules')
             IN  /\ \E i \in 1..Len(listed) : listed[i] = r
                 /\ Len(listed) = IF HasRule(rules, r.id) THEN Len(rules)
                                  ELSE Len(rules) + 1]_vars

\* C16 witness: a rule has just replaced the rule of the same id, beside another
C16_Witness ==
    /\ procs[1].op = POST /\ procs[1].replaced
    /\ Len(rules) = 2
    /\ \E i \in 1..Len(rules) : rules[i] = procs[1].body[1]

\* C17: removeRule(id) returns true (the API answers 200, else 404) exactly when
\* the id was in the registry; then that rule and no other is removed; when it
\* returns false the registry is unchanged; right after a successful removeRule(id)
\* a second one returns false
C17_RemoveRule ==
    [][procs'[1].op = DELETE =>
          LET id == procs'[1].ruleId
              removed == procs'[1].status = 200
          IN  /\ procs'[1].status \in {200, 404}
              /\ removed <=> HasRule(rules, id)
              /\ removed =>
                    /\ ~HasRule(rules', id)
                    /\ Len(rules') = Len(rules) - 1
                    /\ \A i \in 1..Len(rules) :
                          rules[i].id # id =>
                             rules'[IF Pos(rules, id) < i THEN i - 1 ELSE i] = rules[i]
              /\ ~removed => rules' = rules
              /\ (LastExchange.op = DELETE /\ LastExchange.ruleId = id
                  /\ LastExchange.status = 200) => ~removed]_vars

\* C17 witness: the same id was removed twice in a row from a registry that holds
\* other rules: 200, then 404
C17_Witness ==
    /\ procs[1].op = DELETE /\ procs[1].status = 404
    /\ procs[1].prev.op = DELETE /\ procs[1].prev.status = 200
    /\ procs[1].prev.ruleId = procs[1].ruleId
    /\ rules # <<>>

----------------------------------------------------------------------------
(* The in-memory store on its own: callers of InMemoryStorageAdapter.       *)
(* In these runs granted is the history of the increments that returned and *)
(* prevOp[key] the last set or delete of the key.                           *)

\* the key the callers share
StoreKey == A

\* a caller of the store: the method, its arguments and, once it has returned
\* (pc = "done"), its result
StoreCall(pc, op, amount, cur, result) ==
    [pc |-> pc, op |-> op, key |-> StoreKey, amount |-> amount, cur |-> cur,
     result |-> result, at |-> now]

\* one more call started
Started == [calls EXCEPT !.started = @ + 1]

\* InMemoryStorageAdapter.increment, lines 34-35: up to the await of this.get
incrementStart(p, amount) ==
    /\ Free(p)
    /\ calls.started < MaxCalls
    /\ procs' = [procs EXCEPT ![p] =
                    StoreCall("incrementing", "increment", amount,
                              MemGetValue(store, StoreKey, now), <<>>)]
    /\ store' = MemGetStore(store, StoreKey, now)
    /\ calls' = Started
    /\ UNCHANGED <<now, storageType, isConnected, rules, metrics, responseTimes,
                   granted, prevOp>>

\* InMemoryStorageAdapter.increment, lines 35-38: current || 0, this.set, return
incrementReturn(p) ==
    /\ procs[p].pc = "incrementing"
    /\ LET current == IF procs[p].cur = <<>> THEN 0 ELSE procs[p].cur[1]
           newValue == current + procs[p].amount
       IN  /\ store' = MemSet(store, StoreKey, newValue, Undefined, now)
           /\ procs' = [procs EXCEPT ![p] =
                           StoreCall("done", "increment", procs[p].amount,
                                     procs[p].cur, <<newValue>>)]
           /\ granted' = Append(granted, [amount |-> procs[p].amount,
                                          value |-> newValue])
    /\ UNCHANGED <<now, storageType, isConnected, rules, metrics, responseTimes,
                   calls, prevOp>>

\* an empty in-memory store
InitStore ==
    /\ InitCommon
    /\ storageType = MEMORY
    /\ rules = <<>>

\* increments of one key by callers that overlap, and no other writer
NextIncrements ==
    \/ \E p \in ProcIds, amount \in {1, 2} : incrementStart(p, amount)
    \/ \E p \in ProcIds : incrementReturn(p)

SpecIncrements == InitStore /\ [][NextIncrements]_vars

\* the amounts of the increments that returned
Amounts == [i \in 1..Len(granted) |-> granted[i].amount]

\* C18: InMemoryStorageAdapter.increment is atomic per key: once the concurrent
\* increments of a key have returned, the stored value is the initial value (0, the
\* key being absent) plus the sum of their amounts, and the values they returned
\* are pairwise distinct
C18_AtomicIncrement ==
    (\A p \in ProcIds : Free(p)) =>
        /\ granted # <<>> =>
              /\ StoreKey \in DOMAIN store
              /\ store[StoreKey].value = SeqSum(Amounts)
        /\ \A i, j \in 1..Len(granted) :
              granted[i].value = granted[j].value => i = j

\* InMemoryStorageAdapter.set, called by a client of the store
storeSet(p, value, ttlMs) ==
    /\ Free(p)
    /\ calls.started < MaxCalls
    /\ store' = MemSet(store, StoreKey, value, ttlMs, now)
    /\ procs' = [procs EXCEPT ![p] = StoreCall("done", "set", value, <<>>, <<>>)]
    /\ prevOp' = [prevOp EXCEPT ![StoreKey] =
                     [kind |-> "set", at |-> now, ttlMs |-> ttlMs]]
    /\ calls' = Started
    /\ UNCHANGED <<now, storageType, isConnected, rules, metrics, responseTimes,
                   granted>>

\* InMemoryStorageAdapter.get, called by a client of the store
storeGet(p) ==
    /\ Free(p)
    /\ calls.started < MaxCalls
    /\ store' = MemGetStore(store, StoreKey, now)
    /\ procs' = [procs EXCEPT ![p] =
                    StoreCall("done", "get", 0, <<>>, MemGetValue(store, StoreKey, now))]
    /\ calls' = Started
    /\ UNCHANGED <<now, storageType, isConnected, rules, metrics, responseTimes,
                   granted, prevOp>>

\* InMemoryStorageAdapter.delete, called by a client of the store
storeDelete(p) ==
    /\ Free(p)
    /\ calls.started < MaxCalls
    /\ store' = Delete(store, StoreKey)
    /\ procs' = [procs EXCEPT ![p] = StoreCall("done", "delete", 0, <<>>, <<>>)]
    /\ prevOp' = [prevOp EXCEPT ![StoreKey] =
                     [kind |-> "delete", at |-> now, ttlMs |-> Undefined]]
    /\ calls' = Started
    /\ UNCHANGED <<now, storageType, isConnected, rules, metrics, responseTimes,
                   granted>>

\* one client of the store, one call after the other, while time passes
NextExpiry ==
    \/ \E ttlMs \in {Undefined, TickMs} : storeSet(1, 1, ttlMs)
    \/ storeGet(1)
    \/ storeDelete(1)
    \/ incrementStart(1, 1)
    \/ incrementReturn(1)
    \/ Tick

SpecExpiry == InitStore /\ [][NextExpiry]_vars

\* C19: after set(key, v, ttl) at time t with ttl > 0 and no later set or delete of
\* the key, whatever else was called (increment included), a get later than t + ttl
\* returns null, and a get up to t + ttl returns a value
C19_Expiry ==
    LET got == procs[1]
        last == prevOp[StoreKey]
    IN  (/\ got.pc = "done" /\ got.op = "get"
         /\ last.kind = "set" /\ last.ttlMs # Undefined) =>
            IF got.at > last.at + last.ttlMs
            THEN got.result = <<>>
            ELSE got.result # <<>>

----------------------------------------------------------------------------
(* getInfo *)

\* RateLimitInfo
Info(currentRequests, maxRequests, windowStart, windowEnd, resetTime) ==
    [currentRequests |-> currentRequests, maxRequests |-> maxRequests,
     windowStart |-> windowStart, windowEnd |-> windowEnd, resetTime |-> resetTime]

\* C20 mutant: a read that takes the entry out of the store
InfoStoreTakes(st, key, t) == Delete(st, key)

\* BaseRateLimiter.getInfo, line 50: the store after storage.get(key)
InfoStore(st, key, t) == GetStore(st, key, t)

\* RateLimiterService.getInfo and BaseRateLimiter.getInfo up to the await of
\* storage.get; null (cur = <<>>) without a rule, or when create or get throws
getInfoStart(p, identifier) ==
    /\ Free(p)
    /\ calls.started < MaxCalls
    /\ LET pr == [IdleProc EXCEPT !.op = "info", !.request.identifier = identifier,
                                  !.startTime = now, !.applicable = getRules(rules),
                                  !.prev = prevOp[identifier]]
           config == pr.applicable[1].config
           key == generateKey(config, identifier)
       IN  Apply(p,
                 IF pr.applicable = <<>>
                 THEN Effect(Returned(pr, NoResponse, FALSE), store, metrics, responseTimes)
                 ELSE IF config.algorithm \notin RateLimitAlgorithm \/ StorageThrows
                 THEN Effect(Returned(pr, NoResponse, FALSE), store, metrics, responseTimes)
                 ELSE Effect([pr EXCEPT !.pc = "infoAfterGet", !.idx = 1, !.algNow = now,
                                        !.got = GetValue(store, key, now)],
                             InfoStore(store, key, now), metrics, responseTimes),
                 1)
    /\ UNCHANGED <<now, storageType, isConnected, rules, granted>>

\* typeof data === 'number': only Fixed Window stores a number, the other
\* algorithms store an object
StoresNumber(config) == config.algorithm = FIXED_WINDOW

\* BaseRateLimiter.getInfo, lines 52-70: the RateLimitInfo returned, kept in cur
getInfoReturn(p) ==
    /\ procs[p].pc = "infoAfterGet"
    /\ LET pr == procs[p]
           config == CurrentConfig(pr)
           isNumber == pr.got # <<>> /\ StoresNumber(config)
           noData == pr.got = <<>> \/ (isNumber /\ pr.got[1] = 0)
           info == IF noData
                   THEN Info(0, config.maxRequests, now, now + config.windowSizeMs,
                             now + config.windowSizeMs)
                   ELSE Info(IF isNumber THEN pr.got[1] ELSE 0,
                             config.maxRequests, now - config.windowSizeMs,
                             now + config.windowSizeMs, now + config.windowSizeMs)
       IN  Apply(p, Effect(Returned([pr EXCEPT !.cur = <<info>>], NoResponse, FALSE),
                           store, metrics, responseTimes), 0)
    /\ UNCHANGED <<now, storageType, isConnected, rules, granted>>

\* one rule of each algorithm, with windows of one tick
InfoConfigs ==
    {Config(FIXED_WINDOW, 1, TickMs, Undefined),
     Config(SLIDING_WINDOW, 1, TickMs, Undefined),
     Config(TOKEN_BUCKET, PerMinute, TickMs, 1),
     Config(LEAKY_BUCKET, 1, TickMs, Undefined)}

InitInfo == InitOneRule(InfoConfigs)

\* checks and resets by one caller, getInfo by another, one call at a time
NextInfo ==
    \/ Free(2) /\ isAllowedStart(1, A, Undefined)
    \/ AfterGet(1)
    \/ IncrAfterGet(1)
    \/ AfterIncr(1)
    \/ AfterSet(1)
    \/ Free(2) /\ resetStart(1, A)
    \/ resetStep(1)
    \/ Free(1) /\ getInfoStart(2, A)
    \/ getInfoReturn(2)
    \/ now < MaxServiceTicks * TickMs /\ Tick

SpecInfo == InitInfo /\ [][NextInfo]_vars

\* what a reader of the in-memory store can see at time t: the entries not expired
Live(st, t) ==
    LET live == {k \in DOMAIN st : st[k].expiry = Undefined \/ t <= st[k].expiry}
    IN  [k \in live |-> st[k]]

\* C20: a step of getInfo changes neither what the store shows nor the rules, so
\* the decisions of the checks around it are those without it; and a reset(id) that
\* follows a reset(id) with no call in between changes nothing in the store and
\* returns without error
C20_InfoAndResetIdempotent ==
    [][/\ (procs'[2] # procs[2] /\ procs'[2].op = "info") =>
             /\ Live(store', now) = Live(store, now)
             /\ rules' = rules
       /\ (procs'[1] # procs[1] /\ procs'[1].op = "reset"
           /\ procs'[1].prev.kind = "reset") =>
             /\ Live(store', now) = Live(store, now)
             /\ ~procs'[1].threw]_vars

\* C20 witness: getInfo has read a live entry that a check wrote, and later reset
\* has returned twice in a row
C20_Witness ==
    /\ procs[2].pc = "done" /\ procs[2].op = "info" /\ procs[2].got # <<>>
    /\ procs[1].pc = "done" /\ procs[1].op = "reset" /\ procs[1].prev.kind = "reset"
    /\ granted # <<>>

----------------------------------------------------------------------------
(* Two identifiers *)

\* one rule of each algorithm, or a rule for all with a second one for the
\* identifiers that contain "b"
IsolationRegistries ==
    {<<Rule("r", config, 1, <<>>)>> : config \in InfoConfigs}
    \cup {<<Rule("r", Config(SLIDING_WINDOW, 1, TickMs, Undefined), 1, <<>>),
            Rule("s", Config(TOKEN_BUCKET, PerMinute, TickMs, 1), 2,
                 <<Condition("identifier", "contains", FALSE, <<"b">>)>>)>>}

InitIsolation ==
    /\ InitCommon
    /\ storageType = MEMORY
    /\ rules \in IsolationRegistries

\* checks for identifier a by one caller while another caller checks, resets and
\* asks info for identifier ab, the calls interleaving at their awaits
NextIsolation ==
    \/ calls.started <= MaxServiceCalls /\ isAllowedStart(1, A, Undefined)
    \/ calls.started <= MaxServiceCalls /\ isAllowedStart(2, AB, Undefined)
    \/ \E p \in ProcIds : AfterGet(p)
    \/ \E p \in ProcIds : IncrAfterGet(p)
    \/ \E p \in ProcIds : AfterIncr(p)
    \/ \E p \in ProcIds : AfterSet(p)
    \/ calls.started <= MaxServiceCalls /\ resetStart(2, AB)
    \/ resetStep(2)
    \/ calls.started <= MaxServiceCalls /\ getInfoStart(2, AB)
    \/ getInfoReturn(2)
    \/ now < (MaxServiceTicks - 1) * TickMs /\ Tick

SpecIsolation == InitIsolation /\ [][NextIsolation]_vars

\* what the store shows at time t under the keys of one identifier
ViewOf(st, identifier, t) ==
    LET live == Live(st, t)
        own == {k \in DOMAIN live : k[1] = identifier}
    IN  [k \in own |-> live[k]]

\* C21: a step of a check, reset or info call for identifier ab changes nothing
\* that a check for identifier a reads: not the entries under a's keys, not the
\* rules, not a's call in flight; so a's decisions are the same with or without
\* the calls for ab
C21_Isolation ==
    [][\A p \in ProcIds :
          (procs'[p] # procs[p] /\ procs'[p].request.identifier = AB) =>
             /\ ViewOf(store', A, now) = ViewOf(store, A, now)
             /\ rules' = rules
             /\ \A q \in ProcIds \ {p} : procs'[q] = procs[q]]_vars

\* C21 witness: a check for ab was granted and returned while a check for a, whose
\* identifier was granted before, waits at its storage.get
C21_Witness ==
    /\ procs[1].pc = "afterGet"
    /\ procs[2].pc = "done" /\ procs[2].op = "check" /\ procs[2].response.allowed
    /\ procs[2].startTime >= procs[1].startTime
    /\ \E i \in 1..Len(granted) : granted[i].identifier = A
    /\ \E i \in 1..Len(granted) : granted[i].identifier = AB

----------------------------------------------------------------------------
(* The registry changes while a check is suspended *)

\* the rules of the service, and rule B again with the highest priority
SnapshotRules ==
    ServiceRules \cup {Rule("B", Config(FIXED_WINDOW, 2, 2 * TickMs, Undefined), 9, <<>>)}

\* addRule and removeRule at any moment, also between two awaits of an isAllowed
NextSnapshot ==
    \/ \E rule \in SnapshotRules : addRule(rule)
    \/ \E rule \in SnapshotRules : removeRule(rule.id)
    \/ calls.started < MaxServiceCalls - 1 /\ isAllowedStart(1, AB, Undefined)
    \/ AfterGet(1)
    \/ IncrAfterGet(1)
    \/ AfterIncr(1)
    \/ AfterSet(1)
    \/ now < (MaxServiceTicks - 1) * TickMs /\ Tick

SpecSnapshot == InitService /\ [][NextSnapshot]_vars

\* a check that has started and not yet returned
InFlight(pr) == pr.op = "check" /\ pr.pc \notin {"idle", "done"}

\* C22: from its start to its return an isAllowed works on the list of applicable
\* rules it computed when it started: no addRule or removeRule in between changes
\* the list, and the rules it has evaluated are, with the priorities they had at the
\* start, the first rules of that list in its order
C22_Snapshot ==
    [][\A p \in ProcIds :
          InFlight(procs[p]) =>
             /\ procs'[p].applicable = procs[p].applicable
             /\ procs'[p].request = procs[p].request
             /\ LET seen == procs'[p].evaluated
                IN  /\ Len(seen) <= Len(procs[p].applicable)
                    /\ \A i \in 1..Len(seen) :
                          /\ seen[i].rule = procs[p].applicable[i].id
                          /\ seen[i].priority = procs[p].applicable[i].priority]_vars

\* C22 witness: a check waits at the storage of its second rule, a rule that has
\* been removed from the registry since the check started, while a rule that it
\* evaluated first has been registered again with another priority
C22_Witness ==
    /\ InFlight(procs[1])
    /\ procs[1].idx = 2
    /\ ~HasRule(rules, procs[1].applicable[2].id)
    /\ \E i \in 1..Len(rules) :
          /\ rules[i].id = procs[1].applicable[1].id
          /\ rules[i].priority # procs[1].applicable[1].priority

----------------------------------------------------------------------------
(* The singleton and its builder *)

\* RateLimiterService.instance before the first getInstance
NoInstance == "none"

\* the fields of the service object
Service(type, connected, st, registry, m, times) ==
    [storageType |-> type, isConnected |-> connected, store |-> st,
     rules |-> registry, metrics |-> m, responseTimes |-> times]

\* new RateLimiterService(storageType, config): StorageFactory.create, an empty
\* registry and zero metrics
NewService(type) == Service(type, FALSE, <<>>, <<>>, ZeroMetrics, <<>>)

\* C23 mutant: every getInstance constructs a service
getInstanceFresh(instance, requested) == NewService(requested)

\* RateLimiterService.getInstance
getInstance(instance, requested) ==
    IF instance.storageType = NoInstance THEN NewService(requested) ELSE instance

\* RateLimiterBuilder.build, lines 387-390: service.addRule for each rule of the
\* builder, in the order of its withRule calls
RECURSIVE AddRules(_, _)
AddRules(registry, builderRules) ==
    IF builderRules = <<>> THEN registry
    ELSE AddRules(MapSet(registry, Head(builderRules)), Tail(builderRules))

\* the builder call a caller made last
BuildCall(requested, builderRules, constructed) ==
    [pc |-> "done", op |-> "build", requested |-> requested,
     builderRules |-> builderRules, constructed |-> constructed]

\* RateLimiterService.builder().withStorage(requested).withRule(...)...build()
build(requested, builderRules) ==
    LET current == Service(storageType, isConnected, store, rules, metrics,
                           responseTimes)
        service == getInstance(current, requested)
    IN  /\ storageType' = service.storageType
        /\ isConnected' = service.isConnected
        /\ store' = service.store
        /\ rules' = AddRules(service.rules, builderRules)
        /\ metrics' = service.metrics
        /\ responseTimes' = service.responseTimes
        /\ procs' = [procs EXCEPT ![2] = BuildCall(requested, builderRules,
                                                   service # current)]
        /\ procs' # procs
        /\ UNCHANGED <<now, granted, calls, prevOp>>

\* no service yet
InitBuild ==
    /\ InitCommon
    /\ storageType = NoInstance
    /\ rules = <<>>

\* rules for the builders: rule B twice, with two priorities
BuildRules == {rule \in SnapshotRules : rule.id \in {"A", "B"}}

\* what a builder was given by withRule: up to two rules
BuilderRules ==
    {<<>>} \cup {<<r>> : r \in BuildRules}
           \cup {pair \in BuildRules \X BuildRules : pair[1] # pair[2]}

\* builders at any moment, and checks on the service once there is one
NextBuild ==
    \/ \E requested \in {MEMORY, REDIS}, builderRules \in BuilderRules :
            build(requested, builderRules)
    \/ /\ storageType # NoInstance
       /\ calls.started < MaxServiceCalls - 1
       /\ isAllowedStart(1, A, Undefined)
    \/ AfterGet(1)
    \/ IncrAfterGet(1)
    \/ AfterIncr(1)
    \/ AfterSet(1)
    \/ RedisEvent

SpecBuild == InitBuild /\ [][NextBuild]_vars

\* the rule a builder gives last for an id
LastOf(builderRules, id) ==
    builderRules[CHOOSE i \in 1..Len(builderRules) :
                    /\ builderRules[i].id = id
                    /\ \A j \in (i + 1)..Len(builderRules) : builderRules[j].id # id]

\* C23: the first build constructs the service with the storage it asks for; every
\* later build constructs nothing and returns the service that exists: the storage
\* stays the first one whatever the later builder asks for, the counters, the
\* metrics and the response times are untouched, and the registry is the old one
\* with the builder's rules set by id (a rule of an id the builder does not name
\* stays as it was, no rule is lost)
C23_Singleton ==
    [][/\ storageType # NoInstance => storageType' = storageType
       /\ (procs'[2] # procs[2] /\ procs'[2].op = "build") =>
             LET call == procs'[2]
                 named == {call.builderRules[i].id : i \in 1..Len(call.builderRules)}
             IN  /\ call.constructed = (storageType = NoInstance)
                 /\ storageType = NoInstance => storageType' = call.requested
                 /\ storageType # NoInstance =>
                       /\ store' = store
                       /\ metrics' = metrics
                       /\ responseTimes' = responseTimes
                       /\ isConnected' = isConnected
                       /\ procs'[1] = procs[1]
                 /\ \A i \in 1..Len(rules) :
                       /\ HasRule(rules', rules[i].id)
                       /\ rules[i].id \notin named =>
                             rules'[Pos(rules', rules[i].id)] = rules[i]
                 /\ \A id \in named :
                       /\ HasRule(rules', id)
                       /\ rules'[Pos(rules', id)] = LastOf(call.builderRules, id)
                 /\ \A i \in 1..Len(rules') :
                       HasRule(rules, rules'[i].id) \/ rules'[i].id \in named]_vars

\* C23 witness: a service on the in-memory store that has counted a request and
\* holds a counter has just been returned by a builder that asked for Redis and
\* brought rule B, which the registry had with another priority, next to rule A
C23_Witness ==
    /\ procs[2].op = "build"
    /\ procs[2].requested = REDIS
    /\ ~procs[2].constructed
    /\ storageType = MEMORY
    /\ metrics.totalRequests > 0
    /\ store # <<>>
    /\ procs[2].builderRules = <<Rule("B", Config(FIXED_WINDOW, 2, 2 * TickMs, Undefined), 9, <<>>)>>
    /\ Len(rules) = 2

----------------------------------------------------------------------------
(* Fixed Window: the stored count *)

\* C24: Fixed Window, calls that may overlap: once the calls have returned, the
\* value stored under the key of a window slot is the sum of the weights of the
\* checks admitted in that slot
C24_StoredCount ==
    (\A p \in ProcIds : Free(p)) =>
        \A t \in Instants :
            LET ws == WindowStart(TheConfig, t)
                key == AlgorithmKey(TheConfig, A, t)
            IN  key \in DOMAIN store =>
                   store[key].value = GrantedWeight(granted, FIXED_WINDOW, Slot(TheConfig, ws))

----------------------------------------------------------------------------
(* Sliding Window: a rejection with no timestamp in the window *)

\* the timestamps still in the window of the Sliding Window check that returned last
ValidRequests ==
    LET pr == LastCheck
    IN  IF pr.got = <<>> THEN <<>>
        ELSE Filter(pr.got[1].requests, pr.algNow - TheConfig.windowSizeMs)

\* C25: a rejected Sliding Window check has a finite resetTime and a finite
\* retryAfter, and when no timestamp is left in the window (the weight alone is over
\* maxRequests) its resetTime is the time of the check and its retryAfter is 0
C25_EmptyRejection ==
    (/\ LastCheck.pc = "done" /\ LastCheck.op = "check"
     /\ LastCheck.evaluated # <<>>
     /\ ~LastCheck.evaluated[1].response.allowed) =>
        LET response == LastCheck.evaluated[1].response
        IN  /\ response.resetTime # Infinity
            /\ response.retryAfter # Infinity
            /\ ValidRequests = <<>> =>
                  /\ response.resetTime = LastCheck.algNow
                  /\ response.retryAfter = 0

----------------------------------------------------------------------------
(* Fixed Window: the burst across a slot boundary *)

\* the last instant of a window slot: the next instant starts the next slot
LastInstants ==
    {t \in Instants : WindowStart(TheConfig, t + TickMs) = t + TickMs}

\* C26: Fixed Window, calls one after the other: a check is rejected only when the
\* weight admitted in its own slot leaves no room for it, whatever was admitted in
\* the slot before, so a full slot can follow a full slot at once; the weight
\* admitted in a span shorter than windowSizeMs can reach, and never exceeds,
\* 2 * maxRequests
C26_BoundaryBurst ==
    /\ (/\ LastCheck.pc = "done" /\ LastCheck.op = "check"
        /\ LastCheck.evaluated # <<>>
        /\ ~LastCheck.evaluated[1].response.allowed) =>
           GrantedWeight(granted, FIXED_WINDOW,
                         Slot(TheConfig, WindowStart(TheConfig, LastCheck.algNow)))
              + Weight(LastCheck.request) > TheConfig.maxRequests
    /\ \A t \in Instants :
          GrantedWeight(granted, FIXED_WINDOW, Window(TheConfig, t))
             <= 2 * TheConfig.maxRequests

\* C26 witness: maxRequests checks of weight 1 were admitted at the last instant of
\* a slot and maxRequests more at the first instant of the next slot, one tick
\* later: 2 * maxRequests within less than windowSizeMs
C26_Witness ==
    \E t \in LastInstants :
        /\ TickMs < TheConfig.windowSizeMs
        /\ GrantedCount(granted, FIXED_WINDOW, {t}) = TheConfig.maxRequests
        /\ GrantedWeight(granted, FIXED_WINDOW, {t}) = TheConfig.maxRequests
        /\ GrantedCount(granted, FIXED_WINDOW, {t + TickMs}) = TheConfig.maxRequests
        /\ GrantedWeight(granted, FIXED_WINDOW, {t + TickMs}) = TheConfig.maxRequests
        /\ GrantedWeight(granted, FIXED_WINDOW, Window(TheConfig, t + TickMs))
              = 2 * TheConfig.maxRequests

----------------------------------------------------------------------------
(* Rule conditions *)

\* condition values: two strings and an array of strings
ConditionValues == {<<FALSE, A>>, <<FALSE, <<"b">>>>, <<TRUE, <<AB>>>>}

\* RateLimitCondition: the fields and operators of the type, any value
Conditions ==
    {Condition(field, operator, v[1], v[2]) :
        field \in {"identifier", "ip"},
        operator \in {"equals", "contains", "in", "regex"},
        v \in ConditionValues}

\* rule.conditions: absent or empty, one condition, or two
ConditionLists ==
    {<<>>} \cup {<<c>> : c \in Conditions} \cup (Conditions \X Conditions)

\* a service with one rule, under any list of conditions
InitConditions ==
    /\ InitCommon
    /\ storageType = MEMORY
    /\ \E conditions \in ConditionLists :
          rules = <<Rule("r", Config(FIXED_WINDOW, 2, 2 * TickMs, Undefined), 1, conditions)>>

\* checks for two identifiers, one at a time
NextConditions ==
    \/ \E identifier \in {A, AB} :
            calls.started < MaxServiceCalls - 1 /\ isAllowedStart(1, identifier, Undefined)
    \/ AfterGet(1)
    \/ IncrAfterGet(1)
    \/ AfterIncr(1)
    \/ AfterSet(1)
    \/ now < (MaxServiceTicks - 1) * TickMs /\ Tick

SpecConditions == InitConditions /\ [][NextConditions]_vars

\* str has sub as a substring
Substring(str, sub) == \E pre, post \in 0..Len(str) :
                          /\ pre + Len(sub) + post = Len(str)
                          /\ \A i \in 1..Len(sub) : str[pre + i] = sub[i]

\* the condition holds of the identifier, as the claim has it
Holds(condition, identifier) ==
    /\ condition.field = "identifier"
    /\ \/ condition.operator = "equals" /\ ~condition.isArray
                                        /\ condition.value = identifier
       \/ condition.operator = "contains" /\ ~condition.isArray
                                          /\ Substring(identifier, condition.value)
       \/ condition.operator = "in" /\ condition.isArray
                                    /\ \E i \in DOMAIN condition.value :
                                          condition.value[i] = identifier

\* C27: the rule is among the applicable rules of a check exactly when every one of
\* its conditions holds of the request: always when it has no condition; a
\* condition on the identifier holds by equality, by substring for a string value
\* or by membership for a list value, and a condition with another operator or on
\* another field never holds
C27_Conditions ==
    LastCheck.op = "check" =>
        LET conditions == rules[1].conditions
            every == \A i \in 1..Len(conditions) :
                        Holds(conditions[i], LastCheck.request.identifier)
        IN  /\ every => LastCheck.applicable = rules
            /\ ~every => LastCheck.applicable = <<>>
            /\ (LastCheck.pc = "done" /\ ~every) => LastCheck.evaluated = <<>>
            /\ (LastCheck.pc = "done" /\ every) => LastCheck.evaluated # <<>>

\* C27 witness: a rule with two conditions, a substring and a membership, was
\* evaluated for an identifier that meets both
C27_Witness ==
    /\ LastCheck.pc = "done" /\ LastCheck.op = "check"
    /\ LastCheck.request.identifier = AB
    /\ Len(rules[1].conditions) = 2
    /\ rules[1].conditions[1].field = "identifier"
    /\ rules[1].conditions[1].operator = "contains"
    /\ ~rules[1].conditions[1].isArray
    /\ rules[1].conditions[2].field = "identifier"
    /\ rules[1].conditions[2].operator = "in"
    /\ rules[1].conditions[2].isArray
    /\ LastCheck.evaluated # <<>>

----------------------------------------------------------------------------
(* Two rules of one algorithm *)

\* two rules without conditions that use the same algorithm with different limits;
\* the first pair of Fixed Window rules also differs in windowSizeMs
SharedConfigs ==
    {<<Config(FIXED_WINDOW, 2, 2 * TickMs, Undefined),
       Config(FIXED_WINDOW, 3, 3 * TickMs, Undefined)>>,
     <<Config(FIXED_WINDOW, 1, 2 * TickMs, Undefined),
       Config(FIXED_WINDOW, 2, 2 * TickMs, Undefined)>>,
     <<Config(SLIDING_WINDOW, 1, 2 * TickMs, Undefined),
       Config(SLIDING_WINDOW, 2, 3 * TickMs, Undefined)>>,
     <<Config(TOKEN_BUCKET, PerMinute, TickMs, 1),
       Config(TOKEN_BUCKET, 2 * PerMinute, 2 * TickMs, 2)>>,
     <<Config(LEAKY_BUCKET, 1, TickMs, Undefined),
       Config(LEAKY_BUCKET, 2, 2 * TickMs, Undefined)>>}

InitShared ==
    /\ InitCommon
    /\ storageType = MEMORY
    /\ \E pair \in SharedConfigs :
          rules = <<Rule("A", pair[1], 2, <<>>), Rule("B", pair[2], 1, <<>>)>>

\* checks for one identifier, one at a time, the clock running at any await
NextShared ==
    \/ calls.started < MaxServiceCalls /\ isAllowedStart(1, A, Undefined)
    \/ AfterGet(1)
    \/ IncrAfterGet(1)
    \/ AfterIncr(1)
    \/ AfterSet(1)
    \/ now < MaxServiceTicks * TickMs /\ Tick

SpecShared == InitShared /\ [][NextShared]_vars

\* the check has been admitted by its first rule and has just read the store for
\* its second rule, which uses the same algorithm
SecondRuleReads ==
    /\ LastCheck.op = "check" /\ LastCheck.pc = "afterGet" /\ LastCheck.idx = 2
    /\ Len(LastCheck.evaluated) = 1
    /\ LastCheck.evaluated[1].response.allowed
    /\ LastCheck.applicable[1].config.algorithm = LastCheck.applicable[2].config.algorithm

\* the key under which the first rule of the check wrote
FirstKey ==
    AlgorithmKey(LastCheck.applicable[1].config, LastCheck.request.identifier,
                 LastCheck.evaluated[1].at)

\* the window slots of the two rules start at the same time: of the first rule when
\* it was evaluated, of the second when it is
SameWindowStart ==
    WindowStart(LastCheck.applicable[1].config, LastCheck.evaluated[1].at)
        = WindowStart(LastCheck.applicable[2].config, LastCheck.algNow)

\* C28 as stated: when two rules of the same algorithm apply to a request, the
\* second rule reads the entry the first rule wrote for the identifier
C28_SharedEntry ==
    SecondRuleReads =>
        /\ LastCheck.got = GetValue(store, FirstKey, LastCheck.algNow)
        /\ CurrentKey(LastCheck) = FirstKey

\* C28: when two rules of the same algorithm apply to a request and, for Fixed
\* Window, their window slots start at the same time, the second rule reads the
\* entry the first rule wrote for the identifier: the entry is keyed by identifier,
\* algorithm and windowStart, not by rule, and while it has not expired the second
\* rule evaluates the value the first rule stored
C28_SharedEntryPerSlot ==
    (/\ SecondRuleReads
     /\ LastCheck.applicable[1].config.algorithm = FIXED_WINDOW => SameWindowStart) =>
        /\ LastCheck.got = GetValue(store, FirstKey, LastCheck.algNow)
        /\ CurrentKey(LastCheck) = FirstKey
        /\ FirstKey \in DOMAIN store => store[FirstKey].value = LastCheck.pending.value

\* C28 witness: the second rule has read the value stored by the admission under
\* the first rule
C28_Witness ==
    /\ SecondRuleReads
    /\ LastCheck.applicable[1].config.algorithm = FIXED_WINDOW => SameWindowStart
    /\ LastCheck.applicable[1].id # LastCheck.applicable[2].id
    /\ LastCheck.got = <<LastCheck.pending.value>>

----------------------------------------------------------------------------
(* Well-formed decisions *)

\* allowed goes with ALLOWED, retryAfter is there only on a rejection and is then
\* a finite natural number, remainingRequests is a natural number
WellFormed(response) ==
    /\ response.allowed <=> response.result = ALLOWED
    /\ response.retryAfter # NoRetryAfter =>
          /\ ~response.allowed
          /\ response.retryAfter \in Nat
          /\ response.retryAfter # Infinity
    /\ response.remainingRequests \in Nat

\* the result of a rejection by each algorithm
RejectionOf(algorithm) ==
    IF algorithm \in {FIXED_WINDOW, SLIDING_WINDOW} THEN BLOCKED ELSE THROTTLED

\* C29: every response of an algorithm and every response isAllowed returns is
\* well-formed, and a rejection is BLOCKED from Fixed Window and Sliding Window and
\* THROTTLED from Token Bucket and Leaky Bucket
C29_WellFormed ==
    \A p \in ProcIds :
        procs[p].op = "check" =>
            /\ \A i \in 1..Len(procs[p].evaluated) :
                  LET response == procs[p].evaluated[i].response
                  IN  /\ WellFormed(response)
                      /\ ~response.allowed =>
                            response.result
                               = RejectionOf(procs[p].applicable[i].config.algorithm)
            /\ procs[p].pc = "done" => WellFormed(procs[p].response)

----------------------------------------------------------------------------
(* Metrics *)

\* RateLimiterService.resetMetrics
resetMetrics ==
    /\ metrics' = ZeroMetrics
    /\ responseTimes' = <<>>
    /\ UNCHANGED <<now, storageType, isConnected, store, rules, procs, granted,
                   calls, prevOp>>

\* a Fixed Window rule for identifier a, which blocks, and a Token Bucket rule for
\* the identifiers that contain "b", which throttles
MetricsRules ==
    <<Rule("A", Config(FIXED_WINDOW, 1, 2 * TickMs, Undefined), 2,
           <<Condition("identifier", "equals", FALSE, A)>>),
      Rule("C", Config(TOKEN_BUCKET, PerMinute, 4 * TickMs, 1), 1,
           <<Condition("identifier", "contains", FALSE, <<"b">>)>>)>>

InitMetrics ==
    /\ InitCommon
    /\ storageType = MEMORY
    /\ rules = MetricsRules

\* checks for two identifiers, one at a time, and resetMetrics at any moment
NextMetrics ==
    \/ \E identifier \in {A, AB} :
            calls.started < MaxServiceCalls + 2 /\ isAllowedStart(1, identifier, Undefined)
    \/ AfterGet(1)
    \/ IncrAfterGet(1)
    \/ AfterIncr(1)
    \/ AfterSet(1)
    \/ resetMetrics
    \/ now < (MaxServiceTicks - 1) * TickMs /\ Tick

SpecMetrics == InitMetrics /\ [][NextMetrics]_vars

\* C30: errorRate is (blockedRequests + throttledRequests) / totalRequests while
\* totalRequests > 0 and 0 while totalRequests = 0, as after resetMetrics; it lies
\* between 0 and 1
C30_ErrorRate ==
    /\ metrics.totalRequests > 0 =>
          metrics.errorRate = Ratio(metrics.blockedRequests + metrics.throttledRequests,
                                    metrics.totalRequests)
    /\ metrics.totalRequests = 0 => metrics.errorRate = Ratio(0, 1)
    /\ 0 <= metrics.errorRate[1]
    /\ metrics.errorRate[1] <= metrics.errorRate[2]
    /\ metrics.errorRate[2] > 0

\* C30 witness: resetMetrics has run (more calls have returned than are counted),
\* and the requests counted since include an admitted one and a rejected one
C30_Witness ==
    /\ calls.returned > metrics.totalRequests
    /\ metrics.allowedRequests > 0
    /\ metrics.blockedRequests + metrics.throttledRequests > 0
    /\ metrics.errorRate = Ratio(1, 2)

----------------------------------------------------------------------------
(* getInfo under Fixed Window *)

\* C31: Fixed Window: when getInfo returns for an identifier that has had k >= 1
\* checks of weight 1 admitted in the current window slot, it reports
\* currentRequests = k and the rule's maxRequests
C31_InfoReportsCount ==
    [][(/\ procs[2].op = "info" /\ procs[2].pc = "infoAfterGet"
        /\ procs'[2].pc = "done"
        /\ TheConfig.algorithm = FIXED_WINDOW
        /\ WindowStart(TheConfig, procs[2].algNow) = WindowStart(TheConfig, now)
        /\ GrantedWeight(granted, FIXED_WINDOW,
                         Slot(TheConfig, WindowStart(TheConfig, now))) >= 1) =>
           /\ procs'[2].cur # <<>>
           /\ procs'[2].cur[1].currentRequests
                 = GrantedWeight(granted, FIXED_WINDOW,
                                 Slot(TheConfig, WindowStart(TheConfig, now)))
           /\ procs'[2].cur[1].maxRequests = TheConfig.maxRequests]_vars

----------------------------------------------------------------------------
(* The counters of the metrics *)

\* the four counters
Counters == {"totalRequests", "allowedRequests", "blockedRequests", "throttledRequests"}

\* C32: totalRequests = allowedRequests + blockedRequests + throttledRequests in
\* every state, and a step lowers a counter only by setting all four to 0 and
\* emptying the response times, as resetMetrics does
C32_Counters ==
    [][/\ metrics.totalRequests
             = metrics.allowedRequests + metrics.blockedRequests
               + metrics.throttledRequests
       /\ metrics'.totalRequests
             = metrics'.allowedRequests + metrics'.blockedRequests
               + metrics'.throttledRequests
       /\ (\E c \in Counters : metrics'[c] < metrics[c]) =>
             /\ \A c \in Counters : metrics'[c] = 0
             /\ responseTimes' = <<>>]_vars

\* C32 witness: requests of each of the three results have been counted since
\* resetMetrics last set the counters to 0
C32_Witness ==
    /\ metrics.allowedRequests > 0
    /\ metrics.blockedRequests > 0
    /\ metrics.throttledRequests > 0
    /\ calls.returned > metrics.totalRequests

----------------------------------------------------------------------------
(* Rejected checks *)

\* checks of weight 1 and 2 for one identifier under one rule of any algorithm,
\* one at a time
NextRejections ==
    \/ \E weight \in Weights :
            calls.started <= MaxServiceCalls /\ isAllowedStart(1, A, weight)
    \/ AfterGet(1)
    \/ IncrAfterGet(1)
    \/ AfterIncr(1)
    \/ AfterSet(1)
    \/ now < MaxServiceTicks * TickMs /\ Tick

SpecRejections == InitReset /\ [][NextRejections]_vars

\* what a check of each weight would be answered at time t on store st
Outcomes(st, t) ==
    [weight \in {1, 2} |->
        Decide(TheConfig, GetValue(st, AlgorithmKey(TheConfig, A, t), t), t, weight).response]

\* C33: a check that is rejected leaves what the store holds as it was: its
\* storage.get changes no entry a read can return, and the step that rejects writes
\* nothing, neither value nor expiry; a check made at the same time afterwards is
\* answered as it would have been before
C33_RejectionKeepsState ==
    [][/\ (procs[1].op = "check" /\ procs[1].pc = "afterGet"
           /\ procs'[1].pc = "done" /\ ~procs'[1].response.allowed) =>
             /\ store' = store
             /\ Outcomes(store', now) = Outcomes(store, now)
       /\ (calls'.started # calls.started /\ procs'[1].op = "check") =>
             /\ Live(store', now) = Live(store, now)
             /\ Outcomes(store', now) = Outcomes(store, now)]_vars

\* C33 witness: a check has just been rejected on a store that holds the state
\* left by an admitted check
C33_Witness ==
    /\ procs[1].op = "check" /\ procs[1].pc = "done"
    /\ ~procs[1].response.allowed /\ ~procs[1].threw
    /\ procs[1].endTime = now
    /\ granted # <<>>
    /\ Live(store, now) # <<>>

----------------------------------------------------------------------------
(* A chain of rules *)

\* three rules of three algorithms for every identifier; a later rule rejects
\* while the rules before it still admit
ChainRegistries ==
    {<<Rule("A", Config(FIXED_WINDOW, 3, 2 * TickMs, Undefined), 3, <<>>),
       Rule("B", Config(SLIDING_WINDOW, 2, 2 * TickMs, Undefined), 2, <<>>),
       Rule("C", Config(TOKEN_BUCKET, PerMinute, TickMs, 1), 1, <<>>)>>,
     <<Rule("A", Config(LEAKY_BUCKET, 3, 2 * TickMs, Undefined), 3, <<>>),
       Rule("B", Config(TOKEN_BUCKET, PerMinute, TickMs, 1), 2, <<>>),
       Rule("C", Config(FIXED_WINDOW, 1, 2 * TickMs, Undefined), 1, <<>>)>>}

InitChain ==
    /\ InitCommon
    /\ storageType = MEMORY
    /\ rules \in ChainRegistries

\* checks for one identifier, one at a time
NextChain ==
    \/ calls.started <= MaxServiceCalls /\ isAllowedStart(1, A, Undefined)
    \/ AfterGet(1)
    \/ IncrAfterGet(1)
    \/ AfterIncr(1)
    \/ AfterSet(1)
    \/ now < (MaxServiceTicks - 1) * TickMs /\ Tick

SpecChain == InitChain /\ [][NextChain]_vars

\* the key under which the j-th rule of a check was evaluated
KeyOfRule(pr, j) ==
    AlgorithmKey(pr.applicable[j].config, pr.request.identifier, pr.evaluated[j].at)

\* the remainingRequests that the stored state of an algorithm stands for
StoredRemaining(config, value) ==
    CASE config.algorithm = FIXED_WINDOW -> config.maxRequests - value
      [] config.algorithm = SLIDING_WINDOW -> config.maxRequests - value.count
      [] config.algorithm = TOKEN_BUCKET -> Floor(value.tokens, PerMinute)
      [] OTHER -> config.maxRequests - Floor(value.water, PerMinute * MsPerSecond)

\* the keys whose entry a step changes
Changed(before, after) ==
    {k \in DOMAIN before \cup DOMAIN after :
        \/ k \notin DOMAIN before
        \/ k \notin DOMAIN after
        \/ before[k] # after[k]}

----------------------------------------------------------------------------
(* Retrying at the reset time *)

\* Fixed Window and Sliding Window rules that admit one request, or two, a window
RetryConfigs ==
    {Config(FIXED_WINDOW, 1, TickMs, Undefined),
     Config(FIXED_WINDOW, 1, 2 * TickMs, Undefined),
     Config(SLIDING_WINDOW, 1, TickMs, Undefined),
     Config(SLIDING_WINDOW, 1, 2 * TickMs, Undefined),
     Config(SLIDING_WINDOW, 2, 2 * TickMs, Undefined)}

InitRetry == InitOneRule(RetryConfigs)

SpecRetry == InitRetry /\ [][NextRejections]_vars

\* C35: Fixed Window and Sliding Window: a check of weight 1 that was rejected
\* with reset time R, followed with no admission in between by a check of weight 1
\* for the same identifier at a time >= R, is followed by an admission: the second
\* check is admitted; and a second check that is rejected too (so made before R)
\* reports the same reset time R, so R stays the retry time over any run of
\* rejections
C35_HonestReset ==
    LET pr == procs[1]
    IN  (/\ pr.op = "check" /\ pr.pc = "done"
         /\ Weight(pr.request) = 1
         /\ pr.prev.kind = "check" /\ ~pr.prev.allowed /\ pr.prev.weight = 1) =>
            /\ pr.startTime >= pr.prev.resetTime => pr.response.allowed
            /\ ~pr.response.allowed =>
                  /\ pr.startTime < pr.prev.resetTime
                  /\ pr.response.resetTime = pr.prev.resetTime

\* C35 witness: a check made at the very reset time of the rejection before it was
\* admitted
C35_Witness ==
    /\ procs[1].op = "check" /\ procs[1].pc = "done"
    /\ Weight(procs[1].request) = 1
    /\ procs[1].prev.kind = "check" /\ ~procs[1].prev.allowed
    /\ procs[1].prev.weight = 1
    /\ procs[1].startTime = procs[1].prev.resetTime
    /\ procs[1].response.allowed

----------------------------------------------------------------------------
(* The persisted Token Bucket state *)

\* the times of the admitted checks of identifier a, the one whose storage.set has
\* returned and whose answer is still on its way included
AdmittedAt(a) ==
    LET past == {granted[i].at : i \in {j \in 1..Len(granted) :
                                           granted[j].identifier = a}}
    IN  IF procs[1].op = "check" /\ procs[1].pc = "afterSet"
           /\ procs[1].request.identifier = a
        THEN past \cup {procs[1].algNow}
        ELSE past

\* C36: Token Bucket, one rule, one check after the other: the stored state has
\* 0 <= tokens <= burstSize (burstSize defaulting to maxRequests), and its
\* lastRefill is the time of the latest admitted check
C36_StoredInRange ==
    LET key == AlgorithmKey(TheConfig, A, now)
    IN  (TheConfig.algorithm = TOKEN_BUCKET /\ key \in DOMAIN store) =>
            /\ 0 <= store[key].value.tokens
            /\ store[key].value.tokens <= BurstSize(TheConfig) * PerMinute
            /\ AdmittedAt(A) # {}
            /\ \A t \in AdmittedAt(A) : t <= store[key].value.lastRefill
            /\ store[key].value.lastRefill \in AdmittedAt(A)

\* C36 witness: two checks were admitted at different times, the second after a
\* refill, and the bucket is stored with some tokens left
C36_Witness ==
    LET key == AlgorithmKey(TheConfig, A, now)
    IN  /\ TheConfig.algorithm = TOKEN_BUCKET
        /\ key \in DOMAIN store
        /\ Len(granted) >= 2
        /\ granted[Len(granted)].at > granted[1].at
        /\ store[key].value.lastRefill = granted[Len(granted)].at
        /\ store[key].value.tokens > 0
        /\ calls.rejected > 0

----------------------------------------------------------------------------
(* The rate a Token Bucket admits *)

\* C37: Token Bucket, one identifier, one rule: the weight admitted in any
\* interval of length d is at most burstSize plus the refill of d, which is
\* floor(d / windowSizeMs) * maxRequests / 60 (in 60ths of a token here); so an
\* emptied bucket is not full again after an idle time just over 2 * windowSizeMs
C37_RateBound ==
    TheConfig.algorithm = TOKEN_BUCKET =>
        \A from, to \in Instants :
            from <= to =>
                GrantedWeight(granted, TOKEN_BUCKET,
                              {t \in Instants : from <= t /\ t <= to}) * PerMinute
                   <= BurstSize(TheConfig) * PerMinute
                      + Floor(to - from, TheConfig.windowSizeMs) * TheConfig.maxRequests

----------------------------------------------------------------------------
(* exists and get of the in-process store *)

\* InMemoryStorageAdapter.exists: this.store.has(key)
MemExists(st, key) == key \in DOMAIN st

\* InMemoryStorageAdapter.cleanup: every entry past its expiry is deleted
MemCleanup(st, t) ==
    LET kept == {k \in DOMAIN st : ~(st[k].expiry # Undefined /\ t > st[k].expiry)}
    IN  [k \in kept |-> st[k]]

\* InMemoryStorageAdapter.exists, called by a client of the store
storeExists(p) ==
    /\ Free(p)
    /\ calls.started < MaxCalls
    /\ procs' = [procs EXCEPT ![p] =
                    StoreCall("done", "exists", 0, <<>>, MemExists(store, StoreKey))]
    /\ calls' = Started
    /\ UNCHANGED <<now, storageType, isConnected, rules, store, metrics,
                   responseTimes, granted, prevOp>>

\* InMemoryStorageAdapter.cleanup, called by a client of the store
storeCleanup(p) ==
    /\ Free(p)
    /\ calls.started < MaxCalls
    /\ store' = MemCleanup(store, now)
    /\ procs' = [procs EXCEPT ![p] = StoreCall("done", "cleanup", 0, <<>>, <<>>)]
    /\ calls' = Started
    /\ UNCHANGED <<now, storageType, isConnected, rules, metrics, responseTimes,
                   granted, prevOp>>

\* one client of the store that also asks whether the key exists
NextExists ==
    \/ NextExpiry
    \/ storeExists(1)
    \/ storeCleanup(1)

SpecExists == InitStore /\ [][NextExists]_vars

\* C38: in-process store: exists(key) returns true exactly when get(key) at the
\* same instant would return a value; false for a key whose ttl has elapsed
C38_ExistsAgreesWithGet ==
    (/\ procs[1].op = "exists" /\ procs[1].pc = "done"
     /\ procs[1].at = now) =>
        (procs[1].result <=> Len(MemGetValue(store, StoreKey, now)) > 0)

====
